---- MODULE Spec2Model ----
(***************************************************************************)
(* The match statistics engine of Kalendarium (src/app.py):                *)
(* calculate_metrics and calculate_longest_unbeaten_streak, scanned one    *)
(* loop iteration per step over an input list of match rows.               *)
(*                                                                         *)
(* Python values are modelled as follows.  A text value is a sequence of   *)
(* one-character strings; a possibly-NULL column is a record               *)
(* [some, val]: None is [some |-> FALSE], a text s is [some |-> TRUE,      *)
(* val |-> s].  Python list indices are 0-based, TLA+ sequences 1-based:   *)
(* Python's matches[p] is At(matches, p).                                  *)
(***************************************************************************)
EXTENDS Integers, Sequences, FiniteSets, TLC

VARIABLES matches, pc, i, metrics, unbeaten, results, mecze, stats,
          users, now, signed, log, wrong, calls

authVars == <<users, now, signed, log, wrong, calls>>

vars == <<matches, pc, i, metrics, unbeaten, results, mecze, stats, authVars>>

(***************************************************************************)
(* Bounds of the model.                                                    *)
(***************************************************************************)
\* longest input list whose rows vary score, date and venue
MaxLen == 3
\* longest input list whose rows vary the attendance column
MaxAttLen == 2

(***************************************************************************)
(* Python values.                                                          *)
(***************************************************************************)
None == [some |-> FALSE, val |-> <<>>]

Text(s) == [some |-> TRUE, val |-> s]

\* Python truthiness of a column value: None and '' are falsy.
Truthy(x) == x.some /\ x.val # <<>>

Digits == {"0", "1", "2", "3", "4", "5", "6", "7", "8", "9"}

DigitVal(c) ==
    CASE c = "0" -> 0 [] c = "1" -> 1 [] c = "2" -> 2 [] c = "3" -> 3
      [] c = "4" -> 4 [] c = "5" -> 5 [] c = "6" -> 6 [] c = "7" -> 7
      [] c = "8" -> 8 [] c = "9" -> 9

\* int(p) succeeds on a non-empty run of decimal digits (the modelled texts
\* hold no sign, blank or underscore); otherwise it raises ValueError.
IsInt(p) == p # <<>> /\ \A k \in 1..Len(p) : p[k] \in Digits

RECURSIVE IntOf(_)
IntOf(p) ==
    IF p = <<>> THEN 0
    ELSE 10 * IntOf(SubSeq(p, 1, Len(p) - 1)) + DigitVal(p[Len(p)])

\* str.split(sep) for a one-character separator: the parts between the
\* separators, empty parts kept ('' splits to ['']).
RECURSIVE SplitFrom(_, _, _, _)
SplitFrom(s, sep, cur, k) ==
    IF k > Len(s) THEN <<cur>>
    ELSE IF s[k] = sep THEN <<cur>> \o SplitFrom(s, sep, <<>>, k + 1)
    ELSE SplitFrom(s, sep, Append(cur, s[k]), k + 1)

Split(s, sep) == SplitFrom(s, sep, <<>>, 1)

\* home, away = map(int, score.split(":")): ok is FALSE where Python raises
\* ValueError (not exactly two parts, or a part that int() rejects).
ParseScore(score) ==
    LET parts == Split(score.val, ":")
    IN  IF Len(parts) = 2 /\ IsInt(parts[1]) /\ IsInt(parts[2])
        THEN [ok |-> TRUE, home |-> IntOf(parts[1]), away |-> IntOf(parts[2])]
        ELSE [ok |-> FALSE, home |-> 0, away |-> 0]

\* matches[p] with Python's index rule: a negative p counts from the end.
At(ms, p) == IF p >= 0 THEN ms[p + 1] ELSE ms[Len(ms) + p + 1]

(***************************************************************************)
(* Input rows.  Columns read by the engine: Wynik (score), Full Date,      *)
(* Frekwencja (attendance), Miejsce (venue).                               *)
(***************************************************************************)
DigitChar(k) ==
    CASE k = 0 -> "0" [] k = 1 -> "1" [] k = 2 -> "2" [] k = 3 -> "3"
      [] k = 4 -> "4" [] k = 5 -> "5" [] k = 6 -> "6" [] k = 7 -> "7"
      [] k = 8 -> "8" [] k = 9 -> "9"

\* The rows arrive ORDER BY `Full Date` ASC: the k-th row is dated 202k-01-01.
DateAt(k) == Text(<<"2", "0", "2", DigitChar(k), "-", "0", "1", "-", "0", "1">>)

WellFormedScores ==
    { <<"1", ":", "0">>, <<"0", ":", "0">>, <<"0", ":", "1">>,
      <<"1", ":", "1">>, <<"2", ":", "1">> }

MalformedScores == { <<"1">>, <<"x", ":", "1">> }

Venues == { <<"D", "o", "m">>, <<"W", "y", "j", "a", "z", "d">> }

Dom == <<"D", "o", "m">>

Wyjazd == <<"W", "y", "j", "a", "z", "d">>

\* Row shapes that vary score, date and venue.  A row without a date is
\* skipped before its score is parsed, so such rows carry one representative
\* score besides NULL.
StreakShapes ==
    { [Wynik |-> w, hasDate |-> d, Frekwencja |-> None, Miejsce |-> v] :
        w \in {None} \cup {Text(s) : s \in WellFormedScores \cup MalformedScores},
        d \in {TRUE}, v \in Venues }
    \cup
    { [Wynik |-> w, hasDate |-> d, Frekwencja |-> None, Miejsce |-> v] :
        w \in {None, Text(<<"1", ":", "0">>)}, d \in {FALSE}, v \in Venues }

\* Row shapes that vary the attendance column: NULL, the text 'NULL',
\* integers, and a text int() rejects.
AttendanceShapes ==
    { [Wynik |-> w, hasDate |-> d, Frekwencja |-> f, Miejsce |-> v] :
        w \in {None, Text(<<"1", ":", "0">>)},
        d \in BOOLEAN,
        f \in {None, Text(<<"N", "U", "L", "L">>), Text(<<"5">>), Text(<<"9">>),
               Text(<<"1", "x">>)},
        v \in Venues }

Row(shape, k) ==
    [Wynik |-> shape.Wynik,
     FullDate |-> IF shape.hasDate THEN DateAt(k) ELSE None,
     Frekwencja |-> shape.Frekwencja,
     Miejsce |-> Text(shape.Miejsce)]

\* The three-record scenario of the specification's testable properties:
\* 2020-01-01 Home 2:1, 2020-01-08 Away 0:0, 2020-01-15 Home 1:3.
ScenarioRow(day, venue, score) ==
    [Wynik |-> Text(score),
     FullDate |-> Text(<<"2", "0", "2", "0", "-", "0", "1", "-">> \o day),
     Frekwencja |-> None,
     Miejsce |-> Text(venue)]

ScenarioMatches ==
    << ScenarioRow(<<"0", "1">>, Dom, <<"2", ":", "1">>),
       ScenarioRow(<<"0", "8">>, Wyjazd, <<"0", ":", "0">>),
       ScenarioRow(<<"1", "5">>, Dom, <<"1", ":", "3">>) >>

\* matches is a list of at most maxLen rows of the given shapes.
IsListOver(ms, shapes, maxLen) ==
    \E n \in 0..maxLen : \E f \in [1..n -> shapes] :
        ms = [k \in 1..n |-> Row(f[k], k)]

(***************************************************************************)
(* calculate_metrics: the metrics dict and the function's locals, as one   *)
(* record (the *_dates dicts and current_* counters are the locals).       *)
(***************************************************************************)
NoDates == [start |-> None, end |-> None]

\* The three longest_unbeaten_* keys are added to the dict only when the
\* unbeaten pass has returned; until then they hold 0 / None here.

InitMetrics(ms) ==
    [num_matches |-> Len(ms),
     num_wins |-> 0, num_draws |-> 0, num_losses |-> 0,
     total_first_digits |-> 0, total_second_digits |-> 0,
     home_goals |-> 0, home_goals_conceded |-> 0,
     away_goals |-> 0, away_goals_conceded |-> 0,
     longest_streak |-> 0,
     longest_streak_start_date |-> None, longest_streak_end_date |-> None,
     scoring_streak |-> 0,
     longest_scoring_streak_start_date |-> None,
     longest_scoring_streak_end_date |-> None,
     clean_sheet_streak |-> 0,
     longest_clean_sheet_streak_start_date |-> None,
     longest_clean_sheet_streak_end_date |-> None,
     winless_streak |-> 0,
     longest_winless_streak_start_date |-> None,
     longest_winless_streak_end_date |-> None,
     longest_no_clean_sheet_streak |-> 0,
     longest_no_clean_sheet_streak_start_date |-> None,
     longest_no_clean_sheet_streak_end_date |-> None,
     highest_attendance_home |-> 0, highest_attendance_home_year |-> None,
     highest_attendance_away |-> 0, highest_attendance_away_year |-> None,
     clean_sheet_count |-> 0, home_clean_sheets |-> 0, away_clean_sheets |-> 0,
     longest_unbeaten_streak |-> 0,
     longest_unbeaten_start_date |-> None, longest_unbeaten_end_date |-> None,
     longest_streak_dates |-> NoDates,
     scoring_streak_dates |-> NoDates,
     clean_sheet_streak_dates |-> NoDates,
     winless_streak_dates |-> NoDates,
     current_winning_streak |-> 0,
     current_scoring_streak |-> 0,
     current_clean_sheet_streak |-> 0,
     current_winless_streak |-> 0]

\* full_date.split("-")[0] if full_date else None
YearOf(full_date) ==
    IF Truthy(full_date) THEN Text(Split(full_date.val, "-")[1]) ELSE None

\* Mutant of TrackAttendance: an attendance equal to the maximum replaces it.
TrackAttendanceLastMax(m, match) ==
    LET frekwencja == match.Frekwencja
        NULL == <<"N", "U", "L", "L">>
    IN  IF Truthy(frekwencja) /\ frekwencja.val # NULL /\ IsInt(frekwencja.val)
        THEN LET freq_int == IntOf(frekwencja.val)
             IN  IF match.Miejsce = Text(Dom) /\ freq_int >= m.highest_attendance_home
                 THEN [m EXCEPT !.highest_attendance_home = freq_int,
                                !.highest_attendance_home_year = YearOf(match.FullDate)]
                 ELSE IF match.Miejsce = Text(Wyjazd)
                         /\ freq_int >= m.highest_attendance_away
                 THEN [m EXCEPT !.highest_attendance_away = freq_int,
                                !.highest_attendance_away_year = YearOf(match.FullDate)]
                 ELSE m
        ELSE m

\* Attendance tracking: runs before the skip gate, for every row.
TrackAttendance(m, match) ==
    LET frekwencja == match.Frekwencja
        NULL == <<"N", "U", "L", "L">>
    IN  IF Truthy(frekwencja) /\ frekwencja.val # NULL /\ IsInt(frekwencja.val)
        THEN LET freq_int == IntOf(frekwencja.val)
             IN  IF match.Miejsce = Text(Dom) /\ freq_int > m.highest_attendance_home
                 THEN [m EXCEPT !.highest_attendance_home = freq_int,
                                !.highest_attendance_home_year = YearOf(match.FullDate)]
                 ELSE IF match.Miejsce = Text(Wyjazd)
                         /\ freq_int > m.highest_attendance_away
                 THEN [m EXCEPT !.highest_attendance_away = freq_int,
                                !.highest_attendance_away_year = YearOf(match.FullDate)]
                 ELSE m
        ELSE m

\* Mutant of Skipped: the gate tests the score alone.
SkippedScoreOnly(match) == ~Truthy(match.Wynik)

\* The skip gate: if not score or not full_date: continue
Skipped(match) == ~Truthy(match.Wynik) \/ ~Truthy(match.FullDate)

\* Mutant of GoalTotals: at Wyjazd the second component is taken as the
\* team's own goals.
GoalTotalsByVenue(m, match, home, away) ==
    LET m1 == [m EXCEPT !.total_first_digits = @ + home,
                        !.total_second_digits = @ + away]
    IN  IF match.Miejsce = Text(Dom)
        THEN [m1 EXCEPT !.home_goals = @ + home, !.home_goals_conceded = @ + away]
        ELSE IF match.Miejsce = Text(Wyjazd)
        THEN [m1 EXCEPT !.away_goals = @ + away, !.away_goals_conceded = @ + home]
        ELSE m1

\* Summation of total goals and the home/away breakdown.
GoalTotals(m, match, home, away) ==
    LET m1 == [m EXCEPT !.total_first_digits = @ + home,
                        !.total_second_digits = @ + away]
    IN  IF match.Miejsce = Text(Dom)
        THEN [m1 EXCEPT !.home_goals = @ + home, !.home_goals_conceded = @ + away]
        ELSE IF match.Miejsce = Text(Wyjazd)
        THEN [m1 EXCEPT !.away_goals = @ + home, !.away_goals_conceded = @ + away]
        ELSE m1

\* Mutant of Exceeds: a run that equals the best replaces it.
ExceedsOrEquals(current, best) == current >= best

\* The best-length test of every streak: current > best so far.
Exceeds(current, best) == current > best

\* Mutant of LookbackDate: the index is one row too far back.
LookbackDateOffByOne(ms, idx, current) == At(ms, idx - current).FullDate

\* The date read back for the start of a run of `current` rows ending at idx.
LookbackDate(ms, idx, current) == At(ms, idx - current + 1).FullDate

WinBranch(ms, m, idx) ==
    LET full_date == At(ms, idx).FullDate
        m1 == [m EXCEPT !.num_wins = @ + 1,
                        !.current_winning_streak = @ + 1,
                        !.current_winless_streak = 0]
    IN  IF Exceeds(m1.current_winning_streak, m1.longest_streak)
        THEN [m1 EXCEPT !.longest_streak = m1.current_winning_streak,
                        !.longest_streak_dates =
                            [start |-> LookbackDate(ms, idx, m1.current_winning_streak),
                             end |-> full_date]]
        ELSE m1

\* The winless update shared by the draw and the loss branch.
WinlessUpdate(ms, m, idx) ==
    LET full_date == At(ms, idx).FullDate
        m1 == [m EXCEPT !.current_winning_streak = 0,
                        !.current_winless_streak = @ + 1]
    IN  IF Exceeds(m1.current_winless_streak, m1.winless_streak)
        THEN [m1 EXCEPT !.winless_streak = m1.current_winless_streak,
                        !.winless_streak_dates =
                            [start |-> LookbackDate(ms, idx, m1.current_winless_streak),
                             end |-> full_date]]
        ELSE m1

DrawBranch(ms, m, idx) == WinlessUpdate(ms, [m EXCEPT !.num_draws = @ + 1], idx)

\* Mutant of LossBranch: the loss resets the best winning length instead of
\* the current one.
LossBranchResetsBest(ms, m, idx) ==
    WinlessUpdate(ms, [m EXCEPT !.num_losses = @ + 1, !.longest_streak = 0], idx)

LossBranch(ms, m, idx) == WinlessUpdate(ms, [m EXCEPT !.num_losses = @ + 1], idx)

\* Determine match outcome: the first score component against the second.
Outcome(ms, m, idx, home, away) ==
    IF home > away THEN WinBranch(ms, m, idx)
    ELSE IF home = away THEN DrawBranch(ms, m, idx)
    ELSE LossBranch(ms, m, idx)

ScoringStreak(ms, m, idx, home) ==
    LET full_date == At(ms, idx).FullDate
    IN  IF home > 0
        THEN LET m1 == [m EXCEPT !.current_scoring_streak = @ + 1]
             IN  IF Exceeds(m1.current_scoring_streak, m1.scoring_streak)
                 THEN [m1 EXCEPT !.scoring_streak = m1.current_scoring_streak,
                                 !.scoring_streak_dates =
                                     [start |-> LookbackDate(ms, idx, m1.current_scoring_streak),
                                      end |-> full_date]]
                 ELSE m1
        ELSE [m EXCEPT !.current_scoring_streak = 0]

\* Mutant of CleanSheet: a clean sheet away is not added to away_clean_sheets.
CleanSheetHomeOnly(ms, m, idx, away) ==
    LET match == At(ms, idx)
        full_date == match.FullDate
    IN  IF away = 0
        THEN LET m1 == [m EXCEPT !.clean_sheet_count = @ + 1,
                                 !.home_clean_sheets =
                                     IF match.Miejsce = Text(Dom) THEN @ + 1 ELSE @,
                                 !.current_clean_sheet_streak = @ + 1]
             IN  IF m1.current_clean_sheet_streak > m1.clean_sheet_streak
                 THEN [m1 EXCEPT !.clean_sheet_streak = m1.current_clean_sheet_streak,
                                 !.clean_sheet_streak_dates =
                                     [start |-> At(ms, idx - m1.current_clean_sheet_streak + 1).FullDate,
                                      end |-> full_date]]
                 ELSE m1
        ELSE [m EXCEPT !.current_clean_sheet_streak = 0]

CleanSheet(ms, m, idx, away) ==
    LET match == At(ms, idx)
        full_date == match.FullDate
    IN  IF away = 0
        THEN LET m1 == [m EXCEPT !.clean_sheet_count = @ + 1,
                                 !.home_clean_sheets =
                                     IF match.Miejsce = Text(Dom) THEN @ + 1 ELSE @,
                                 !.away_clean_sheets =
                                     IF match.Miejsce = Text(Wyjazd) THEN @ + 1 ELSE @,
                                 !.current_clean_sheet_streak = @ + 1]
             IN  IF Exceeds(m1.current_clean_sheet_streak, m1.clean_sheet_streak)
                 THEN [m1 EXCEPT !.clean_sheet_streak = m1.current_clean_sheet_streak,
                                 !.clean_sheet_streak_dates =
                                     [start |-> LookbackDate(ms, idx, m1.current_clean_sheet_streak),
                                      end |-> full_date]]
                 ELSE m1
        ELSE [m EXCEPT !.current_clean_sheet_streak = 0]

\* Mutant of SkipRecord: a skipped row breaks the current runs, as it does
\* in the unbeaten pass.
SkipRecordResets(m) ==
    [m EXCEPT !.current_winning_streak = 0, !.current_winless_streak = 0,
              !.current_scoring_streak = 0, !.current_clean_sheet_streak = 0]

\* A skipped row: nothing after the attendance tracking is executed.
SkipRecord(m) == m

\* Whether the loop body raises ValueError on row idx (Python index).
RaisesAt(ms, idx) ==
    LET match == At(ms, idx)
    IN  ~Skipped(match) /\ ~ParseScore(match.Wynik).ok

\* Mutant of ProcessRecord: the skip gate comes before the attendance
\* tracking.
ProcessRecordGateFirst(ms, m, idx) ==
    LET match == At(ms, idx)
    IN  IF Skipped(match) THEN SkipRecord(m)
        ELSE LET m1 == TrackAttendance(m, match)
                 sc == ParseScore(match.Wynik)
                 m2 == GoalTotals(m1, match, sc.home, sc.away)
                 m3 == Outcome(ms, m2, idx, sc.home, sc.away)
                 m4 == ScoringStreak(ms, m3, idx, sc.home)
             IN  CleanSheet(ms, m4, idx, sc.away)

\* One iteration of the loop of calculate_metrics on row idx (Python index),
\* for a row on which it does not raise.
ProcessRecord(ms, m, idx) ==
    LET match == At(ms, idx)
        m1 == TrackAttendance(m, match)
    IN  IF Skipped(match) THEN SkipRecord(m1)
        ELSE LET sc == ParseScore(match.Wynik)
                 m2 == GoalTotals(m1, match, sc.home, sc.away)
                 m3 == Outcome(ms, m2, idx, sc.home, sc.away)
                 m4 == ScoringStreak(ms, m3, idx, sc.home)
             IN  CleanSheet(ms, m4, idx, sc.away)

\* The loop of calculate_metrics(ms) run over the first k rows.
RECURSIVE MetricsLoop(_, _)
MetricsLoop(ms, k) ==
    IF k = 0 THEN InitMetrics(ms)
    ELSE ProcessRecord(ms, MetricsLoop(ms, k - 1), k - 1)

\* Assign final streak start/end dates from the local dictionaries.
AssignDates(m) ==
    [m EXCEPT !.longest_streak_start_date = m.longest_streak_dates.start,
              !.longest_streak_end_date = m.longest_streak_dates.end,
              !.longest_scoring_streak_start_date = m.scoring_streak_dates.start,
              !.longest_scoring_streak_end_date = m.scoring_streak_dates.end,
              !.longest_clean_sheet_streak_start_date = m.clean_sheet_streak_dates.start,
              !.longest_clean_sheet_streak_end_date = m.clean_sheet_streak_dates.end,
              !.longest_winless_streak_start_date = m.winless_streak_dates.start,
              !.longest_winless_streak_end_date = m.winless_streak_dates.end]

(***************************************************************************)
(* calculate_longest_unbeaten_streak: its locals, and one loop iteration.  *)
(***************************************************************************)
\* Mutant of InitUnbeaten: the run counter starts at 1.
InitUnbeatenOpenRun ==
    [i |-> 0,
     longest_unbeaten_streak |-> 0,
     longest_unbeaten_start_date |-> None,
     longest_unbeaten_end_date |-> None,
     current_unbeaten_streak |-> 1,
     unbeaten_start_date |-> None]

InitUnbeaten ==
    [i |-> 0,
     longest_unbeaten_streak |-> 0,
     longest_unbeaten_start_date |-> None,
     longest_unbeaten_end_date |-> None,
     current_unbeaten_streak |-> 0,
     unbeaten_start_date |-> None]

\* Mutant of UnbeatenMissing: a row with missing data leaves the run as it is.
UnbeatenMissingKeepsRun(u) == u

\* if not score or not full_date: the row breaks the current unbeaten run.
UnbeatenMissing(u) == [u EXCEPT !.current_unbeaten_streak = 0]

UnbeatenRaisesAt(ms, idx) ==
    LET match == At(ms, idx)
    IN  Truthy(match.Wynik) /\ Truthy(match.FullDate) /\ ~ParseScore(match.Wynik).ok

\* Mutant of UnbeatenRecord: only a win (home > away) continues the run.
UnbeatenRecordWinsOnly(ms, u, idx) ==
    LET match == At(ms, idx)
        score == match.Wynik
        full_date == match.FullDate
    IN  IF ~Truthy(score) \/ ~Truthy(full_date) THEN UnbeatenMissing(u)
        ELSE LET sc == ParseScore(score)
             IN  IF sc.home > sc.away
                 THEN LET u1 == [u EXCEPT !.unbeaten_start_date =
                                              IF u.current_unbeaten_streak = 0
                                              THEN full_date ELSE @,
                                          !.current_unbeaten_streak = @ + 1]
                      IN  IF Exceeds(u1.current_unbeaten_streak, u1.longest_unbeaten_streak)
                          THEN [u1 EXCEPT
                                  !.longest_unbeaten_streak = u1.current_unbeaten_streak,
                                  !.longest_unbeaten_start_date =
                                      LookbackDate(ms, idx, u1.current_unbeaten_streak),
                                  !.longest_unbeaten_end_date = full_date]
                          ELSE u1
                 ELSE [u EXCEPT !.current_unbeaten_streak = 0]

\* One iteration of the loop on row idx, for a row on which it does not raise.
UnbeatenRecord(ms, u, idx) ==
    LET match == At(ms, idx)
        score == match.Wynik
        full_date == match.FullDate
    IN  IF ~Truthy(score) \/ ~Truthy(full_date) THEN UnbeatenMissing(u)
        ELSE LET sc == ParseScore(score)
             IN  IF sc.home >= sc.away
                 THEN LET u1 == [u EXCEPT !.unbeaten_start_date =
                                              IF u.current_unbeaten_streak = 0
                                              THEN full_date ELSE @,
                                          !.current_unbeaten_streak = @ + 1]
                      IN  IF Exceeds(u1.current_unbeaten_streak, u1.longest_unbeaten_streak)
                          THEN [u1 EXCEPT
                                  !.longest_unbeaten_streak = u1.current_unbeaten_streak,
                                  !.longest_unbeaten_start_date =
                                      LookbackDate(ms, idx, u1.current_unbeaten_streak),
                                  !.longest_unbeaten_end_date = full_date]
                          ELSE u1
                 ELSE [u EXCEPT !.current_unbeaten_streak = 0]

(***************************************************************************)
(* The state machine: calculate_metrics(matches), one loop iteration per   *)
(* step.  pc: "metrics_loop", "unbeaten_loop", "done" (returned),          *)
(* "raised" (ValueError left the function).                                *)
(***************************************************************************)
(***************************************************************************)
(* The users table of AuthManager (auth_utils.py).  A row with id 0 stands *)
(* for no row.  Times are minutes.                                         *)
(***************************************************************************)
\* The e-mail addresses of the accounts, lower case.
Accounts == {"a", "b"}

\* Clients whose authenticate_user calls can overlap.
MaxCallers == 5

Callers == 1..MaxCallers

NoToken == [email |-> "", issued |-> 0]

NoRow ==
    [id |-> 0, password_hash |-> <<>>, confirmation_token |-> NoToken,
     is_confirmed |-> FALSE, failed_login_attempts |-> 0,
     locked_until |-> [some |-> FALSE, val |-> 0],
     last_login |-> [some |-> FALSE, val |-> 0]]

NoCall == [op |-> "", email |-> "", token |-> NoToken, user |-> NoRow, ok |-> FALSE]

\* No account, no token issued, nothing called yet.
NoAuth ==
    /\ users = [e \in Accounts |-> NoRow]
    /\ now = 0
    /\ signed = {}
    /\ log = NoCall
    /\ wrong = [e \in Accounts |-> 0]
    /\ calls = [c \in Callers |-> [stage |-> "idle", user |-> NoRow]]

\* The statistics of app_simple.results() before they are computed.
NoStats == [total_matches |-> 0, wins |-> 0, draws |-> 0, losses |-> 0]

\* The locals of results() that the calls after calculate_metrics assign.
NoResults ==
    [top_scorers |-> <<>>,
     home_away_stats |-> <<>>,
     home_away_matches |-> <<>>,
     top_scorers_by_location |-> <<>>,
     column_visibility |-> <<>>]

Init ==
    /\ \/ IsListOver(matches, StreakShapes, MaxLen)
       \/ IsListOver(matches, AttendanceShapes, MaxAttLen)
       \/ matches = ScenarioMatches
    /\ pc = "metrics_loop"
    /\ i = 0
    /\ metrics = InitMetrics(matches)
    /\ unbeaten = InitUnbeaten
    /\ results = NoResults
    /\ mecze = <<>>
    /\ stats = NoStats
    /\ NoAuth

MetricsIter ==
    /\ pc = "metrics_loop"
    /\ i < Len(matches)
    /\ ~RaisesAt(matches, i)
    /\ metrics' = ProcessRecord(matches, metrics, i)
    /\ i' = i + 1
    /\ UNCHANGED <<authVars, mecze, stats, matches, pc, unbeaten, results>>

MetricsRaise ==
    /\ pc = "metrics_loop"
    /\ i < Len(matches)
    /\ RaisesAt(matches, i)
    /\ metrics' = TrackAttendance(metrics, At(matches, i))
    /\ pc' = "raised"
    /\ UNCHANGED <<authVars, mecze, stats, matches, i, unbeaten, results>>

\* The loop is over: final dates are assigned and the unbeaten pass is called.
MetricsLoopEnd ==
    /\ pc = "metrics_loop"
    /\ i = Len(matches)
    /\ metrics' = AssignDates(metrics)
    /\ unbeaten' = InitUnbeaten
    /\ pc' = "unbeaten_loop"
    /\ UNCHANGED <<authVars, mecze, stats, matches, i, results>>

UnbeatenIter ==
    /\ pc = "unbeaten_loop"
    /\ unbeaten.i < Len(matches)
    /\ IF UnbeatenRaisesAt(matches, unbeaten.i)
       THEN pc' = "raised" /\ UNCHANGED unbeaten
       ELSE /\ unbeaten' = [UnbeatenRecord(matches, unbeaten, unbeaten.i)
                               EXCEPT !.i = unbeaten.i + 1]
            /\ pc' = pc
    /\ UNCHANGED <<authVars, mecze, stats, matches, i, metrics, results>>

\* The unbeaten pass returns its triple and calculate_metrics returns metrics.
Return ==
    /\ pc = "unbeaten_loop"
    /\ unbeaten.i = Len(matches)
    /\ metrics' = [metrics EXCEPT
                     !.longest_unbeaten_streak = unbeaten.longest_unbeaten_streak,
                     !.longest_unbeaten_start_date = unbeaten.longest_unbeaten_start_date,
                     !.longest_unbeaten_end_date = unbeaten.longest_unbeaten_end_date]
    /\ pc' = "done"
    /\ UNCHANGED <<authVars, mecze, stats, matches, i, unbeaten, results>>

Next == MetricsIter \/ MetricsRaise \/ MetricsLoopEnd \/ UnbeatenIter \/ Return

Spec == Init /\ [][Next]_vars

(***************************************************************************)
(* The functions results() calls on the fetched rows after                 *)
(* calculate_metrics: scorer extraction, home/away tallies and column      *)
(* visibility.                                                             *)
(***************************************************************************)
\* str.strip(): leading and trailing whitespace removed.
Whitespace == {" ", "\t"}

RECURSIVE LStrip(_)
LStrip(s) == IF s # <<>> /\ Head(s) \in Whitespace THEN LStrip(Tail(s)) ELSE s

RECURSIVE RStrip(_)
RStrip(s) ==
    IF s # <<>> /\ s[Len(s)] \in Whitespace
    THEN RStrip(SubSeq(s, 1, Len(s) - 1))
    ELSE s

Strip(s) == RStrip(LStrip(s))

\* str.isdigit(): a non-empty text of digits only.
isdigit(s) == s # <<>> /\ \A k \in 1..Len(s) : s[k] \in Digits

\* re.sub(r'\([^)]*\)', '', s) from position p on: a '(' is removed with
\* everything up to the nearest ')' after it; a '(' with no ')' after it stays.
RECURSIVE StripParensFrom(_, _)
StripParensFrom(s, p) ==
    IF p > Len(s) THEN <<>>
    ELSE LET closers == {q \in (p + 1)..Len(s) : s[q] = ")"}
         IN  IF s[p] = "(" /\ closers # {}
             THEN StripParensFrom(s, (CHOOSE q \in closers :
                                        \A r \in closers : q <= r) + 1)
             ELSE <<s[p]>> \o StripParensFrom(s, p + 1)

StripParens(s) == StripParensFrom(s, 1)

\* Mutant of ReSplitFrom: every whitespace character separates, as \s would.
RECURSIVE ReSplitFromWhitespace(_, _, _, _)
ReSplitFromWhitespace(s, p, parts, cur) ==
    LET seps == {";", " ", "\t"}
    IN  IF p > Len(s) THEN Append(parts, cur)
        ELSE IF s[p] \in seps
        THEN IF p > 1 /\ s[p - 1] \in seps
             THEN ReSplitFromWhitespace(s, p + 1, parts, cur)
             ELSE ReSplitFromWhitespace(s, p + 1, Append(parts, cur), <<>>)
        ELSE ReSplitFromWhitespace(s, p + 1, parts, Append(cur, s[p]))

\* re.split(r'[; ]+', s) from position p on: the pieces between maximal runs of
\* ';' and ' ', empty pieces at either end kept ('' splits to ['']).
RECURSIVE ReSplitFrom(_, _, _, _)
ReSplitFrom(s, p, parts, cur) ==
    LET seps == {";", " "}
    IN  IF p > Len(s) THEN Append(parts, cur)
        ELSE IF s[p] \in seps
        THEN IF p > 1 /\ s[p - 1] \in seps
             THEN ReSplitFrom(s, p + 1, parts, cur)
             ELSE ReSplitFrom(s, p + 1, Append(parts, cur), <<>>)
        ELSE ReSplitFrom(s, p + 1, parts, Append(cur, s[p]))

ReSplit(s) == ReSplitFrom(s, 1, <<>>, <<>>)

\* Mutant of ScorerNames: only the first name of a text is counted.
ScorerNamesFirstOnly(text) ==
    LET cleaned == StripParens(text)
        parts == ReSplit(Strip(cleaned))
        stripped == [k \in 1..Len(parts) |-> Strip(parts[k])]
        names == SelectSeq(stripped, LAMBDA scorer : scorer # <<>> /\ ~isdigit(scorer))
    IN  IF names = <<>> THEN <<>> ELSE <<names[1]>>

\* The names one scorers text contributes, in order: parentheses removed,
\* split, each piece stripped, empty and all-digit pieces dropped.
ScorerNames(text) ==
    LET cleaned == StripParens(text)
        parts == ReSplit(Strip(cleaned))
        stripped == [k \in 1..Len(parts) |-> Strip(parts[k])]
    IN  SelectSeq(stripped, LAMBDA scorer : scorer # <<>> /\ ~isdigit(scorer))

\* A Counter is the sequence of its (key, count) items in insertion order.
CounterAdd(c, name) ==
    IF \E k \in 1..Len(c) : c[k][1] = name
    THEN [k \in 1..Len(c) |-> IF c[k][1] = name THEN <<name, c[k][2] + 1>> ELSE c[k]]
    ELSE Append(c, <<name, 1>>)

RECURSIVE CounterUpdate(_, _)
CounterUpdate(c, names) ==
    IF names = <<>> THEN c
    ELSE CounterUpdate(CounterAdd(c, Head(names)), Tail(names))

\* The scorers list after the first k records.
RECURSIVE Scorers(_, _)
Scorers(records, k) ==
    IF k = 0 THEN <<>>
    ELSE LET record == records[k]
         IN  IF ~Truthy(record.Strzelcy) THEN Scorers(records, k - 1)
             ELSE Scorers(records, k - 1) \o ScorerNames(record.Strzelcy.val)

\* The pair get_top_scorers returns when nobody scored: ("", "").
EmptyScorer == << <<>>, <<>> >>

\* Mutant of get_top_scorers: no scorer at all gives the empty list.
get_top_scorers_no_sentinel(records) ==
    LET goal_counts == CounterUpdate(<<>>, Scorers(records, Len(records)))
    IN  IF goal_counts # <<>>
        THEN LET values == {goal_counts[k][2] : k \in 1..Len(goal_counts)}
                 max_goals == CHOOSE g \in values : \A h \in values : h <= g
             IN  SelectSeq(goal_counts, LAMBDA item : item[2] = max_goals)
        ELSE <<>>

get_top_scorers(records) ==
    LET goal_counts == CounterUpdate(<<>>, Scorers(records, Len(records)))
    IN  IF goal_counts # <<>>
        THEN LET values == {goal_counts[k][2] : k \in 1..Len(goal_counts)}
                 max_goals == CHOOSE g \in values : \A h \in values : h <= g
             IN  SelectSeq(goal_counts, LAMBDA item : item[2] = max_goals)
        ELSE <<EmptyScorer>>

\* home_scorers (home = TRUE) or away_scorers after the first k matches.
RECURSIVE VenueScorers(_, _, _)
VenueScorers(ms, k, home) ==
    IF k = 0 THEN <<>>
    ELSE LET match == ms[k]
             before == VenueScorers(ms, k - 1, home)
         IN  IF ~Truthy(match.Strzelcy) THEN before
             ELSE IF (match.Miejsce = Text(Dom)) = home
             THEN CounterUpdate(before, ScorerNames(match.Strzelcy.val))
             ELSE before

\* Mutant of MaxByCount: the last item with the greatest count.
MaxByCountLast(items, default) ==
    IF items = <<>> THEN default
    ELSE LET best == CHOOSE k \in 1..Len(items) :
                         /\ \A j \in 1..Len(items) : items[j][2] <= items[k][2]
                         /\ \A j \in (k + 1)..Len(items) : items[j][2] < items[k][2]
         IN  items[best]

\* max(items, key=lambda x: x[1], default=...): the first item, in iteration
\* order, with the greatest count.
MaxByCount(items, default) ==
    IF items = <<>> THEN default
    ELSE LET best == CHOOSE k \in 1..Len(items) :
                         /\ \A j \in 1..Len(items) : items[j][2] <= items[k][2]
                         /\ \A j \in 1..(k - 1) : items[j][2] < items[k][2]
         IN  items[best]

calculate_top_scorers_by_location(ms) ==
    [home_top_scorer |-> MaxByCount(VenueScorers(ms, Len(ms), TRUE), << <<>>, 0 >>),
     away_top_scorer |-> MaxByCount(VenueScorers(ms, Len(ms), FALSE), << <<>>, 0 >>)]

\* The (home_matches, away_matches) pair after the first k matches.
RECURSIVE HomeAwayMatchesLoop(_, _)
HomeAwayMatchesLoop(ms, k) ==
    IF k = 0 THEN [home_matches |-> 0, away_matches |-> 0]
    ELSE LET c == HomeAwayMatchesLoop(ms, k - 1)
         IN  IF ms[k].Miejsce = Text(Dom)
             THEN [c EXCEPT !.home_matches = @ + 1]
             ELSE [c EXCEPT !.away_matches = @ + 1]

calculate_home_away_matches(ms) == HomeAwayMatchesLoop(ms, Len(ms))

\* Mutant of StatsBucket: every match is classified as a home match.
StatsBucketHomeOnly(match, home, away) ==
    IF home > away THEN "home_wins"
    ELSE IF home = away THEN "home_draws"
    ELSE "home_losses"

\* Mutant of StatsBucket: away from home the second component is taken for
\* the team's own goals.
StatsBucketAwayReversed(match, home, away) ==
    IF match.Miejsce = Text(Dom)
    THEN IF home > away THEN "home_wins"
         ELSE IF home = away THEN "home_draws"
         ELSE "home_losses"
    ELSE IF away > home THEN "away_wins"
         ELSE IF away = home THEN "away_draws"
         ELSE "away_losses"

\* The counter calculate_home_away_stats increments for a parsed score.
StatsBucket(match, home, away) ==
    IF match.Miejsce = Text(Dom)
    THEN IF home > away THEN "home_wins"
         ELSE IF home = away THEN "home_draws"
         ELSE "home_losses"
    ELSE IF away > home THEN "away_losses"
         ELSE IF away = home THEN "away_draws"
         ELSE "away_wins"

\* map(int, score.split(":")) raises ValueError on some row with a score.
HomeAwayStatsRaises(ms) ==
    \E k \in 1..Len(ms) : Truthy(ms[k].Wynik) /\ ~ParseScore(ms[k].Wynik).ok

\* The six counters after the first k matches.
RECURSIVE HomeAwayStatsLoop(_, _)
HomeAwayStatsLoop(ms, k) ==
    IF k = 0
    THEN [home_wins |-> 0, home_draws |-> 0, home_losses |-> 0,
          away_wins |-> 0, away_draws |-> 0, away_losses |-> 0]
    ELSE LET st == HomeAwayStatsLoop(ms, k - 1)
             match == ms[k]
             score == match.Wynik
         IN  IF ~Truthy(score) THEN st
             ELSE LET sc == ParseScore(score)
                  IN  [st EXCEPT ![StatsBucket(match, sc.home, sc.away)] = @ + 1]

calculate_home_away_stats(ms) == HomeAwayStatsLoop(ms, Len(ms))

\* Mutant of ColumnFlags: the text 'NULL' and nothing else is taken for an
\* absent value in all three columns.
ColumnFlagsNullSentinel(visibility, match) ==
    LET NULL == <<"N", "U", "L", "L">>
    IN  [Strzelcy |-> visibility.Strzelcy
                        \/ (Truthy(match.Strzelcy) /\ match.Strzelcy.val # NULL),
         Frekwencja |-> visibility.Frekwencja
                        \/ (Truthy(match.Frekwencja) /\ match.Frekwencja.val # NULL),
         Sedzia |-> visibility.Sedzia
                        \/ (Truthy(match.sedzia) /\ match.sedzia.val # NULL)]

\* The three tests of one iteration of check_column_visibility.
ColumnFlags(visibility, match) ==
    LET NULL == <<"N", "U", "L", "L">>
    IN  [Strzelcy |-> visibility.Strzelcy
                        \/ (Truthy(match.Strzelcy) /\ Strip(match.Strzelcy.val) # <<>>),
         Frekwencja |-> visibility.Frekwencja
                        \/ (Truthy(match.Frekwencja)
                            /\ match.Frekwencja.val \notin {<<>>, NULL}),
         Sedzia |-> visibility.Sedzia
                        \/ (Truthy(match.sedzia) /\ Strip(match.sedzia.val) # <<>>)]

\* The loop from row k on; it breaks once all three flags are set.
RECURSIVE VisibilityFrom(_, _, _)
VisibilityFrom(ms, k, visibility) ==
    IF k > Len(ms) THEN visibility
    ELSE LET v == ColumnFlags(visibility, ms[k])
         IN  IF v.Strzelcy /\ v.Frekwencja /\ v.Sedzia THEN v
             ELSE VisibilityFrom(ms, k + 1, v)

\* The empty dict check_column_visibility returns for no rows.
EmptyDict == <<>>

check_column_visibility(ms) ==
    IF ms = <<>> THEN EmptyDict
    ELSE VisibilityFrom(ms, 1, [Strzelcy |-> FALSE, Frekwencja |-> FALSE, Sedzia |-> FALSE])

\* calculate_longest_unbeaten_streak run over the first k rows.
RECURSIVE UnbeatenLoop(_, _)
UnbeatenLoop(ms, k) ==
    IF k = 0 THEN InitUnbeaten
    ELSE UnbeatenRecord(ms, UnbeatenLoop(ms, k - 1), k - 1)

\* calculate_metrics(ms) as one call: it raises if either scan meets a score
\* it cannot parse, and otherwise returns the metrics dictionary.
CalculateMetricsRaises(ms) ==
    \E k \in 0..(Len(ms) - 1) : RaisesAt(ms, k) \/ UnbeatenRaisesAt(ms, k)

calculate_metrics(ms) ==
    LET m == AssignDates(MetricsLoop(ms, Len(ms)))
        u == UnbeatenLoop(ms, Len(ms))
    IN  [m EXCEPT !.longest_unbeaten_streak = u.longest_unbeaten_streak,
                  !.longest_unbeaten_start_date = u.longest_unbeaten_start_date,
                  !.longest_unbeaten_end_date = u.longest_unbeaten_end_date]

\* Bounds of the inputs of results().
MaxTextLen == 3

MaxScorerRows == 2

MaxStatRows == 2

MaxVisRows == 2

\* A fetched row with the six columns the calls read.
ResultRow(shape, k) ==
    [Wynik |-> shape.Wynik,
     FullDate |-> IF shape.dated THEN DateAt(k) ELSE None,
     Frekwencja |-> shape.Frekwencja,
     Miejsce |-> Text(shape.Miejsce),
     Strzelcy |-> shape.Strzelcy,
     sedzia |-> shape.sedzia]

Shape(wynik, dated, miejsce, strzelcy, frekwencja, sedzia) ==
    [Wynik |-> wynik, dated |-> dated, Miejsce |-> miejsce,
     Strzelcy |-> strzelcy, Frekwencja |-> frekwencja, sedzia |-> sedzia]

\* Characters of a scorers text: names, a shirt number, the separators the
\* code splits on, a tab, parentheses.
ScorerAlphabet == {"A", "B", "7", ";", " ", "\t", "(", ")"}

\* Scorers texts for several rows: one or two names in either order.
ScorerTexts ==
    {None, Text(<<"A">>), Text(<<"B">>),
     Text(<<"A", " ", "B">>), Text(<<"B", " ", "A">>)}

ScorerShapes ==
    {Shape(None, TRUE, v, t, None, None) : v \in Venues, t \in ScorerTexts}

\* Rows that vary score and venue; a dated row with a malformed score makes
\* calculate_metrics raise, an undated one is skipped by it.
StatShapes ==
    {Shape(w, TRUE, v, None, None, None) :
        v \in Venues,
        w \in {None, Text(<<>>), Text(<<"1", ":", "0">>), Text(<<"0", ":", "0">>),
               Text(<<"0", ":", "1">>), Text(<<"1">>)}}
    \cup {Shape(w, FALSE, v, None, None, None) :
        v \in Venues, w \in {Text(<<"1", ":", "0">>), Text(<<"1">>)}}

\* Rows that vary one of the three optional columns at a time: NULL, a
\* blank, the text 'NULL', a value; and a row with all three present.
ColumnValues(present) ==
    {Text(<<>>), Text(<<" ">>), Text(<<"N", "U", "L", "L">>), Text(present)}

VisibilityShapes ==
    {Shape(None, TRUE, Dom, None, None, None),
     Shape(None, TRUE, Dom, Text(<<"A">>), Text(<<"5">>), Text(<<"R">>))}
    \cup {Shape(None, TRUE, Dom, x, None, None) : x \in ColumnValues(<<"A">>)}
    \cup {Shape(None, TRUE, Dom, None, x, None) : x \in ColumnValues(<<"5">>)}
    \cup {Shape(None, TRUE, Dom, None, None, x) : x \in ColumnValues(<<"R">>)}

\* matches is a list of at most maxLen fetched rows of the given shapes.
IsResultListOver(ms, shapes, maxLen) ==
    \E n \in 0..maxLen : \E f \in [1..n -> shapes] :
        ms = [k \in 1..n |-> ResultRow(f[k], k)]

\* matches is one row whose scorers text is any text over the alphabet.
IsOneScorerText(ms) ==
    \E n \in 0..MaxTextLen : \E t \in [1..n -> ScorerAlphabet] : \E v \in Venues :
        ms = <<ResultRow(Shape(None, TRUE, v, Text(t), None, None), 1)>>

\* results(): the rows are fetched; calculate_metrics is called first.
InitResults ==
    /\ \/ IsOneScorerText(matches)
       \/ IsResultListOver(matches, ScorerShapes, MaxScorerRows)
       \/ IsResultListOver(matches, StatShapes, MaxStatRows)
       \/ IsResultListOver(matches, VisibilityShapes, MaxVisRows)
    /\ pc = "calculate_metrics"
    /\ i = 0
    /\ metrics = InitMetrics(matches)
    /\ unbeaten = InitUnbeaten
    /\ results = NoResults
    /\ mecze = <<>>
    /\ stats = NoStats
    /\ NoAuth

CallCalculateMetrics ==
    /\ pc = "calculate_metrics"
    /\ IF CalculateMetricsRaises(matches)
       THEN pc' = "raised" /\ UNCHANGED metrics
       ELSE pc' = "get_top_scorers" /\ metrics' = calculate_metrics(matches)
    /\ UNCHANGED <<authVars, mecze, stats, matches, i, unbeaten, results>>

CallGetTopScorers ==
    /\ pc = "get_top_scorers"
    /\ results' = [results EXCEPT !.top_scorers = get_top_scorers(matches)]
    /\ pc' = "calculate_home_away_stats"
    /\ UNCHANGED <<authVars, mecze, stats, matches, i, metrics, unbeaten>>

CallHomeAwayStats ==
    /\ pc = "calculate_home_away_stats"
    /\ IF HomeAwayStatsRaises(matches)
       THEN pc' = "raised" /\ UNCHANGED results
       ELSE /\ pc' = "calculate_home_away_matches"
            /\ results' = [results EXCEPT
                             !.home_away_stats = calculate_home_away_stats(matches)]
    /\ UNCHANGED <<authVars, mecze, stats, matches, i, metrics, unbeaten>>

CallHomeAwayMatches ==
    /\ pc = "calculate_home_away_matches"
    /\ results' = [results EXCEPT
                     !.home_away_matches = calculate_home_away_matches(matches)]
    /\ pc' = "calculate_top_scorers_by_location"
    /\ UNCHANGED <<authVars, mecze, stats, matches, i, metrics, unbeaten>>

CallTopScorersByLocation ==
    /\ pc = "calculate_top_scorers_by_location"
    /\ results' = [results EXCEPT !.top_scorers_by_location =
                                      calculate_top_scorers_by_location(matches)]
    /\ pc' = "check_column_visibility"
    /\ UNCHANGED <<authVars, mecze, stats, matches, i, metrics, unbeaten>>

CallCheckColumnVisibility ==
    /\ pc = "check_column_visibility"
    /\ results' = [results EXCEPT
                     !.column_visibility = check_column_visibility(matches)]
    /\ pc' = "render"
    /\ UNCHANGED <<authVars, mecze, stats, matches, i, metrics, unbeaten>>

NextResults ==
    \/ CallCalculateMetrics
    \/ CallGetTopScorers
    \/ CallHomeAwayStats
    \/ CallHomeAwayMatches
    \/ CallTopScorersByLocation
    \/ CallCheckColumnVisibility

SpecResults == InitResults /\ [][NextResults]_vars

(***************************************************************************)
(* app_simple.results(): the simple statistics over the fetched rows.      *)
(***************************************************************************)
\* int(text): surrounding whitespace is dropped, one sign is allowed, the
\* rest is a non-empty run of digits; otherwise ValueError.
Unsigned(p) ==
    LET t == Strip(p)
    IN  IF t # <<>> /\ t[1] \in {"+", "-"} THEN Tail(t) ELSE t

IntAccepts(p) == IsInt(Unsigned(p))

PyInt(p) ==
    LET t == Strip(p)
    IN  IF t[1] = "-" THEN 0 - IntOf(Unsigned(p)) ELSE IntOf(Unsigned(p))

\* Mutant of parse_result: a score that cannot be parsed counts as a defeat.
parse_result_unparsed_lost(wynik) ==
    IF ~wynik.some THEN <<0, 1>>
    ELSE IF \E k \in 1..Len(wynik.val) : wynik.val[k] = ":"
    THEN LET parts == Split(wynik.val, ":")
         IN  IF Len(parts) = 2 /\ IntAccepts(parts[1]) /\ IntAccepts(parts[2])
             THEN <<PyInt(parts[1]), PyInt(parts[2])>>
             ELSE <<0, 1>>
    ELSE <<0, 1>>

\* parse_result(wynik): every exception (None has no `in`, a split into
\* other than two parts, a part int() rejects) is caught and gives (0, 0).
parse_result(wynik) ==
    IF ~wynik.some THEN <<0, 0>>
    ELSE IF \E k \in 1..Len(wynik.val) : wynik.val[k] = ":"
    THEN LET parts == Split(wynik.val, ":")
         IN  IF Len(parts) = 2 /\ IntAccepts(parts[1]) /\ IntAccepts(parts[2])
             THEN <<PyInt(parts[1]), PyInt(parts[2])>>
             ELSE <<0, 0>>
    ELSE <<0, 0>>

\* sum(1 for m in mecze if ...): flags holds the condition row by row.
RECURSIVE SumWhere(_)
SumWhere(flags) ==
    IF flags = <<>> THEN 0
    ELSE (IF Head(flags) THEN 1 ELSE 0) + SumWhere(Tail(flags))

\* Bounds of the inputs of app_simple.results().
MaxWynikLen == 4

MaxSimpleRows == 2

WynikAlphabet == {"0", "1", "2", ":", "-", " ", "x"}

\* Scores for several rows: NULL, results of each kind, texts parse_result
\* cannot parse.
SimpleScores ==
    {None, Text(<<"1", ":", "0">>), Text(<<"0", ":", "1">>), Text(<<"1", ":", "1">>),
     Text(<<"x">>), Text(<<"1", ":", "0", ":", "2">>)}

IsOneWynik(rows) ==
    \E n \in 0..MaxWynikLen : \E t \in [1..n -> WynikAlphabet] :
        rows = <<[Wynik |-> Text(t)]>>

IsSimpleList(rows) ==
    \E n \in 0..MaxSimpleRows : \E f \in [1..n -> SimpleScores] :
        rows = [k \in 1..n |-> [Wynik |-> f[k]]]

\* The rows are fetched; the statistics come next.
InitSimple ==
    /\ IsOneWynik(mecze) \/ IsSimpleList(mecze)
    /\ stats = NoStats
    /\ pc = "total_matches"
    /\ matches = <<>>
    /\ i = 0
    /\ metrics = InitMetrics(matches)
    /\ unbeaten = InitUnbeaten
    /\ results = NoResults
    /\ NoAuth

TotalMatches ==
    /\ pc = "total_matches"
    /\ stats' = [stats EXCEPT !.total_matches = Len(mecze)]
    /\ pc' = "wins"
    /\ UNCHANGED <<authVars, mecze, matches, i, metrics, unbeaten, results>>

Wins ==
    /\ pc = "wins"
    /\ stats' = [stats EXCEPT !.wins =
                   SumWhere([k \in 1..Len(mecze) |->
                               parse_result(mecze[k].Wynik)[1]
                                   > parse_result(mecze[k].Wynik)[2]])]
    /\ pc' = "draws"
    /\ UNCHANGED <<authVars, mecze, matches, i, metrics, unbeaten, results>>

Draws ==
    /\ pc = "draws"
    /\ stats' = [stats EXCEPT !.draws =
                   SumWhere([k \in 1..Len(mecze) |->
                               parse_result(mecze[k].Wynik)[1]
                                   = parse_result(mecze[k].Wynik)[2]])]
    /\ pc' = "losses"
    /\ UNCHANGED <<authVars, mecze, matches, i, metrics, unbeaten, results>>

Losses ==
    /\ pc = "losses"
    /\ stats' = [stats EXCEPT !.losses = stats.total_matches - stats.wins - stats.draws]
    /\ pc' = "render_template"
    /\ UNCHANGED <<authVars, mecze, matches, i, metrics, unbeaten, results>>

NextSimple == TotalMatches \/ Wins \/ Draws \/ Losses

SpecSimple == InitSimple /\ [][NextSimple]_vars

(***************************************************************************)
(* AuthManager (auth_utils.py): registration, confirmation and login.      *)
(***************************************************************************)
\* Addresses as typed into the forms; validate_email accepts them.
Emails == {"a", "A", "b"}

\* email.lower()
lower(email) == IF email = "A" THEN "a" ELSE email

validate_email_format(email) == email \in Emails

UpperCase == {"A", "B"}

LowerCase == {"a", "b", "x"}

Special == {"!"}

\* The requirements a password misses; empty for a strong password.
validate_password_strength(password) ==
    LET has(class) == \E k \in 1..Len(password) : password[k] \in class
    IN  (IF Len(password) < 8 THEN {"length"} ELSE {})
        \cup (IF has(UpperCase) THEN {} ELSE {"uppercase"})
        \cup (IF has(LowerCase) THEN {} ELSE {"lowercase"})
        \cup (IF has(Digits) THEN {} ELSE {"digit"})
        \cup (IF has(Special) THEN {} ELSE {"special"})

\* A password that meets the requirements and one that does not.
Passwords ==
    {<<"A", "b", "1", "!", "x", "x", "x", "x">>,
     <<"a", "b", "1">>}

\* bcrypt: checkpw accepts exactly the password that was hashed.
hash_password(password) == <<"bcrypt">> \o password

verify_password(password, hashed) == hashed = hash_password(password)

\* max_age of confirm_token: 3600 seconds.
Expiration == 60

\* timedelta(minutes=15)
LockMinutes == 15

\* if failed_attempts >= 5
LockThreshold == 5

\* The clock stops at MaxNow minutes in the registration model and at
\* MaxLoginNow in the login model.
MaxNow == 70

MaxLoginNow == 40

\* A wrong password is tried while failed_login_attempts is below MaxFailed
\* in the login model, where the lockout is studied, and below
\* MaxFailedRegistering in the registration model.
MaxFailed == 6

MaxFailedRegistering == 0

MaxSigned == 2

\* Between registration calls time passes in steps under the hour: a token
\* is still valid one step after its issue and expired two steps after.
RegistrationTicks == {35}

\* Between logins time passes in steps shorter than the lock.
LoginTicks == {10}

Some(t) == [some |-> TRUE, val |-> t]

Nothing == [some |-> FALSE, val |-> 0]

\* serializer.dumps(email, salt): the address signed with the time of issue.
generate_confirmation_token(email, t) == [email |-> email, issued |-> t]

\* confirm_token(token): the address of a token the serializer signed no more
\* than Expiration ago, otherwise None (BadSignature, SignatureExpired).
confirm_token(token, t) ==
    IF token \in signed /\ t - token.issued <= Expiration
    THEN [some |-> TRUE, val |-> token.email]
    ELSE [some |-> FALSE, val |-> ""]

\* The tokens a caller of confirm_email can present: the signed ones and
\* forged ones.
PresentedTokens == signed \cup {[email |-> e, issued |-> now] : e \in Accounts}

\* SELECT ... FROM users WHERE email = ?
SelectUser(email) == IF email \in Accounts THEN users[email] ELSE NoRow

Call(op, email, token, user, ok) ==
    [op |-> op, email |-> email, token |-> token, user |-> user, ok |-> ok]

create_user(email, password) ==
    /\ LET existing_user == SelectUser(lower(email))
           confirmation_token == generate_confirmation_token(email, now)
       IN  IF ~validate_email_format(email)
              \/ validate_password_strength(password) # {}
              \/ existing_user.id # 0
           THEN /\ log' = Call("create_user", email, NoToken, NoRow, FALSE)
                /\ UNCHANGED <<users, signed>>
           ELSE /\ Cardinality(signed \cup {confirmation_token}) <= MaxSigned
                /\ users' = [users EXCEPT ![lower(email)] =
                      [NoRow EXCEPT
                         !.id = 1 + Cardinality({e \in Accounts : users[e].id # 0}),
                         !.password_hash = hash_password(password),
                         !.confirmation_token = confirmation_token]]
                /\ signed' = signed \cup {confirmation_token}
                /\ log' = Call("create_user", email, confirmation_token, NoRow, TRUE)
    /\ UNCHANGED <<now, wrong, calls>>
    /\ UNCHANGED <<matches, pc, i, metrics, unbeaten, results, mecze, stats>>

\* The row is locked at time t.
Locked(user, t) == user.locked_until.some /\ t < user.locked_until.val

\* What authenticate_user decides from the row it read.
Verdict(user, password, t) ==
    IF user.id = 0 THEN "invalid"
    ELSE IF Locked(user, t) THEN "locked"
    ELSE IF ~user.is_confirmed THEN "unconfirmed"
    ELSE IF verify_password(password, user.password_hash) THEN "success"
    ELSE "failure"

\* Mutant of AfterLogin: a wrong password never locks the account.
AfterLoginNoLock(row, user, verdict, t) ==
    IF verdict = "success"
    THEN [row EXCEPT !.failed_login_attempts = 0,
                     !.locked_until = Nothing,
                     !.last_login = Some(t)]
    ELSE IF verdict = "failure"
    THEN [row EXCEPT !.failed_login_attempts = user.failed_login_attempts + 1,
                     !.locked_until = Nothing]
    ELSE row

\* The UPDATE authenticate_user commits, computed from the row it read
\* (user) and applied to the row as it is now (row).
AfterLogin(row, user, verdict, t) ==
    IF verdict = "success"
    THEN [row EXCEPT !.failed_login_attempts = 0,
                     !.locked_until = Nothing,
                     !.last_login = Some(t)]
    ELSE IF verdict = "failure"
    THEN LET failed_attempts == user.failed_login_attempts + 1
         IN  [row EXCEPT !.failed_login_attempts = failed_attempts,
                         !.locked_until = IF failed_attempts >= LockThreshold
                                          THEN Some(t + LockMinutes)
                                          ELSE Nothing]
    ELSE row

\* The wrong-password calls on a confirmed account since its last successful
\* login, counted up to LockThreshold.
WrongAfter(count, user, password, verdict) ==
    IF verdict = "success" THEN 0
    ELSE IF user.id # 0 /\ user.is_confirmed
            /\ ~verify_password(password, user.password_hash)
            /\ count < LockThreshold
    THEN count + 1
    ELSE count

\* authenticate_user called by one client at a time; cap bounds the counter
\* of failed attempts.
authenticate_user(email, password, cap) ==
    /\ LET user == SelectUser(lower(email))
           verdict == Verdict(user, password, now)
       IN  /\ verdict = "failure" => user.failed_login_attempts < cap
           /\ log' = Call("authenticate_user", email, NoToken,
                          IF verdict = "success" THEN user ELSE NoRow,
                          verdict = "success")
           /\ IF user.id # 0
              THEN /\ users' = [users EXCEPT ![lower(email)] =
                                   AfterLogin(user, user, verdict, now)]
                   /\ wrong' = [wrong EXCEPT ![lower(email)] =
                                   WrongAfter(@, user, password, verdict)]
              ELSE UNCHANGED <<users, wrong>>
    /\ UNCHANGED <<now, signed, calls>>
    /\ UNCHANGED <<matches, pc, i, metrics, unbeaten, results, mecze, stats>>

\* Mutant of ConfirmMatches: the UPDATE matches the row whether or not it is
\* confirmed already.
ConfirmMatchesAnyRow(row) == row.id # 0

\* WHERE email = ? AND is_confirmed = FALSE
ConfirmMatches(row) == row.id # 0 /\ ~row.is_confirmed

\* UPDATE users SET is_confirmed = TRUE, confirmation_token = NULL
ConfirmUpdate(row) ==
    [row EXCEPT !.is_confirmed = TRUE, !.confirmation_token = NoToken]

confirm_email(token) ==
    /\ LET email == confirm_token(token, now)
       IN  IF ~email.some
           THEN /\ log' = Call("confirm_email", "", token, NoRow, FALSE)
                /\ UNCHANGED users
           ELSE LET row == SelectUser(lower(email.val))
                    rowcount == IF ConfirmMatches(row) THEN 1 ELSE 0
                IN  /\ log' = Call("confirm_email", email.val, token, NoRow, rowcount # 0)
                    /\ IF rowcount = 0 THEN UNCHANGED users
                       ELSE users' = [users EXCEPT ![lower(email.val)] = ConfirmUpdate(row)]
    /\ UNCHANGED <<now, signed, wrong, calls>>
    /\ UNCHANGED <<matches, pc, i, metrics, unbeaten, results, mecze, stats>>

resend_confirmation(email) ==
    /\ LET user == SelectUser(lower(email))
           new_token == generate_confirmation_token(email, now)
       IN  IF user.id = 0 \/ user.is_confirmed
           THEN /\ log' = Call("resend_confirmation", email, NoToken, NoRow, FALSE)
                /\ UNCHANGED <<users, signed>>
           ELSE /\ Cardinality(signed \cup {new_token}) <= MaxSigned
                /\ users' = [users EXCEPT ![lower(email)].confirmation_token = new_token]
                /\ signed' = signed \cup {new_token}
                /\ log' = Call("resend_confirmation", email, new_token, NoRow, TRUE)
    /\ UNCHANGED <<now, wrong, calls>>
    /\ UNCHANGED <<matches, pc, i, metrics, unbeaten, results, mecze, stats>>

\* Time passes between two calls.
Tick(minutes, limit) ==
    /\ \E d \in minutes : now + d <= limit /\ now' = now + d
    /\ UNCHANGED <<users, signed, log, wrong, calls>>
    /\ UNCHANGED <<matches, pc, i, metrics, unbeaten, results, mecze, stats>>

\* An empty users table; no request of the statistics pages is under way.
InitAuth ==
    /\ NoAuth
    /\ matches = <<>>
    /\ pc = "auth"
    /\ i = 0
    /\ metrics = InitMetrics(matches)
    /\ unbeaten = InitUnbeaten
    /\ results = NoResults
    /\ mecze = <<>>
    /\ stats = NoStats

NextAuth ==
    \/ \E email \in Emails \cup {"?"}, password \in Passwords : create_user(email, password)
    \/ \E email \in Emails, password \in Passwords :
          authenticate_user(email, password, MaxFailedRegistering)
    \/ \E token \in PresentedTokens : confirm_email(token)
    \/ \E email \in Emails : resend_confirmation(email)
    \/ Tick(RegistrationTicks, MaxNow)

SpecAuth == InitAuth /\ [][NextAuth]_vars

\* The users table after create_user("a", ...) and confirm_email at time 0:
\* one confirmed account that has never logged in.
ConfirmedAccount ==
    LET token == generate_confirmation_token("a", 0)
    IN  /\ users = [e \in Accounts |->
                     IF e = "a"
                     THEN [NoRow EXCEPT
                             !.id = 1,
                             !.password_hash =
                                 hash_password(<<"A", "b", "1", "!", "x", "x", "x", "x">>),
                             !.is_confirmed = TRUE]
                     ELSE NoRow]
        /\ now = 0
        /\ signed = {token}
        /\ log = Call("confirm_email", "a", token, NoRow, TRUE)
        /\ wrong = [e \in Accounts |-> 0]
        /\ calls = [c \in Callers |-> [stage |-> "idle", user |-> NoRow]]

InitLogin ==
    /\ ConfirmedAccount
    /\ matches = <<>>
    /\ pc = "auth"
    /\ i = 0
    /\ metrics = InitMetrics(matches)
    /\ unbeaten = InitUnbeaten
    /\ results = NoResults
    /\ mecze = <<>>
    /\ stats = NoStats

NextLogin ==
    \/ \E email \in Emails \cup {"?"}, password \in Passwords :
          authenticate_user(email, password, MaxFailed)
    \/ Tick(LoginTicks, MaxLoginNow)

SpecLogin == InitLogin /\ [][NextLogin]_vars

\* Overlapping authenticate_user calls on the account "a", all with a wrong
\* password: each call first reads the row, verifies, and later commits its
\* UPDATE; every call has its own connection and no transaction spans the two.
WrongPassword == <<"a", "b", "1">>

\* The SELECT and the checks up to verify_password.
AuthenticateSelect(c) ==
    /\ calls[c].stage = "idle"
    /\ LET user == SelectUser("a")
           verdict == Verdict(user, WrongPassword, now)
       IN  IF verdict = "failure"
           THEN calls' = [calls EXCEPT ![c] = [stage |-> "verified", user |-> user]]
           ELSE calls' = [calls EXCEPT ![c] = [stage |-> "refused", user |-> user]]
    /\ UNCHANGED <<users, now, signed, log, wrong>>
    /\ UNCHANGED <<matches, pc, i, metrics, unbeaten, results, mecze, stats>>

\* The UPDATE with the values computed from the row read earlier, and commit.
AuthenticateUpdate(c) ==
    /\ calls[c].stage = "verified"
    /\ users' = [users EXCEPT !["a"] = AfterLogin(@, calls[c].user, "failure", now)]
    /\ calls' = [calls EXCEPT ![c].stage = "failed"]
    /\ log' = Call("authenticate_user", "a", NoToken, NoRow, FALSE)
    /\ UNCHANGED <<now, signed, wrong>>
    /\ UNCHANGED <<matches, pc, i, metrics, unbeaten, results, mecze, stats>>

NextRace == \E c \in Callers : AuthenticateSelect(c) \/ AuthenticateUpdate(c)

SpecRace == InitLogin /\ [][NextRace]_vars

(***************************************************************************)
(* Reference notions used to state the properties.  They are written from  *)
(* the input list alone, without the scan's accumulators.                   *)
(***************************************************************************)
RECURSIVE SumSeq(_)
SumSeq(s) == IF s = <<>> THEN 0 ELSE s[1] + SumSeq(Tail(s))

SumRows(ms, F(_)) == SumSeq([k \in 1..Len(ms) |-> F(ms[k])])

CountRows(ms, P(_)) == Cardinality({k \in 1..Len(ms) : P(ms[k])})

HasScore(r) == r.Wynik.some /\ r.Wynik.val # <<>>

HasDate(r) == r.FullDate.some /\ r.FullDate.val # <<>>

\* A usable score: present and of the form <digits>:<digits>.
UsableScore(r) == HasScore(r) /\ ParseScore(r.Wynik).ok

\* A row the aggregate pass processes: score and date both present.
Processed(r) == HasScore(r) /\ HasDate(r)

First(r) == ParseScore(r.Wynik).home

Second(r) == ParseScore(r.Wynik).away

IsHome(r) == r.Miejsce = Text(Dom)

IsAway(r) == r.Miejsce = Text(Wyjazd)

OutcomeSum == metrics.num_wins + metrics.num_draws + metrics.num_losses

(***************************************************************************)
(* C1.  For every record sequence, the longest unbeaten streak returned by *)
(* calculate_metrics is at least the longest winning streak returned for   *)
(* the same input.  The code breaks this: a row with a missing score or    *)
(* date resets the unbeaten run but not the winning run.                   *)
(***************************************************************************)
C1_UnbeatenAtLeastWinning ==
    pc = "done" => metrics.longest_unbeaten_streak >= metrics.longest_streak

(***************************************************************************)
(* C2.  calculate_metrics returns num_wins + num_draws + num_losses <=     *)
(* num_matches.  As claimed, equality holds iff every record has a usable  *)
(* score; as amended, iff every record has both a score and a date.        *)
(***************************************************************************)
C2_EqualIffEveryScoreUsable ==
    pc = "done" =>
        /\ OutcomeSum <= metrics.num_matches
        /\ (OutcomeSum = metrics.num_matches
              <=> \A k \in 1..Len(matches) : UsableScore(matches[k]))

\* C2 as amended: whenever calculate_metrics returns, the three outcome
\* counts sum to at most num_matches, with equality iff every record has
\* both a score and a date.
C2_EqualIffEveryRowProcessed ==
    pc = "done" =>
        /\ OutcomeSum <= metrics.num_matches
        /\ (OutcomeSum = metrics.num_matches
              <=> \A k \in 1..Len(matches) : Processed(matches[k]))

C2_Witness ==
    /\ pc = "done"
    /\ Len(matches) >= 2
    /\ \E k \in 1..Len(matches) : UsableScore(matches[k]) /\ ~HasDate(matches[k])
    /\ \A k \in 1..Len(matches) : UsableScore(matches[k])
    /\ OutcomeSum = metrics.num_matches - 1

(***************************************************************************)
(* C3.  A record whose score is malformed (no ':', or a non-numeric part)  *)
(* is treated like a record with a missing score: calculate_metrics never  *)
(* raises.  The code raises ValueError from map(int, score.split(":")).    *)
(***************************************************************************)
C3_MalformedScoreNeverRaises == pc # "raised"

(***************************************************************************)
(* C4.  As claimed: the venue decides which score component is the team's  *)
(* own goals (home component at Dom, away component at Wyjazd), for the    *)
(* win/draw/loss classification and for all goal totals.                   *)
(***************************************************************************)
ClaimedFor(r) == IF IsAway(r) THEN Second(r) ELSE First(r)

ClaimedAgainst(r) == IF IsAway(r) THEN First(r) ELSE Second(r)

ClaimedWin(r) == Processed(r) /\ ClaimedFor(r) > ClaimedAgainst(r)

ClaimedLoss(r) == Processed(r) /\ ClaimedFor(r) < ClaimedAgainst(r)

ClaimedAwayFor(r) == IF Processed(r) /\ IsAway(r) THEN ClaimedFor(r) ELSE 0

ClaimedAwayAgainst(r) == IF Processed(r) /\ IsAway(r) THEN ClaimedAgainst(r) ELSE 0

C4_VenueDecidesOwnComponent ==
    pc = "done" =>
        /\ metrics.num_wins = CountRows(matches, ClaimedWin)
        /\ metrics.num_losses = CountRows(matches, ClaimedLoss)
        /\ metrics.away_goals = SumRows(matches, ClaimedAwayFor)
        /\ metrics.away_goals_conceded = SumRows(matches, ClaimedAwayAgainst)

\* C4 as amended: at either venue the team's own goals are the first score
\* component and the goals against the second; the venue only selects the
\* home or the away bucket the two components are added to.
RowWin(r) == Processed(r) /\ First(r) > Second(r)

RowDraw(r) == Processed(r) /\ First(r) = Second(r)

RowLoss(r) == Processed(r) /\ First(r) < Second(r)

FirstOf(r) == IF Processed(r) THEN First(r) ELSE 0

SecondOf(r) == IF Processed(r) THEN Second(r) ELSE 0

HomeFirst(r) == IF IsHome(r) THEN FirstOf(r) ELSE 0

HomeSecond(r) == IF IsHome(r) THEN SecondOf(r) ELSE 0

AwayFirst(r) == IF IsAway(r) THEN FirstOf(r) ELSE 0

AwaySecond(r) == IF IsAway(r) THEN SecondOf(r) ELSE 0

C4_FirstComponentIsOwn ==
    pc = "done" =>
        /\ metrics.num_wins = CountRows(matches, RowWin)
        /\ metrics.num_draws = CountRows(matches, RowDraw)
        /\ metrics.num_losses = CountRows(matches, RowLoss)
        /\ metrics.total_first_digits = SumRows(matches, FirstOf)
        /\ metrics.total_second_digits = SumRows(matches, SecondOf)
        /\ metrics.home_goals = SumRows(matches, HomeFirst)
        /\ metrics.home_goals_conceded = SumRows(matches, HomeSecond)
        /\ metrics.away_goals = SumRows(matches, AwayFirst)
        /\ metrics.away_goals_conceded = SumRows(matches, AwaySecond)

C4_Witness ==
    /\ pc = "done"
    /\ \E k \in 1..Len(matches) :
          IsAway(matches[k]) /\ RowWin(matches[k]) /\ Second(matches[k]) = 0
    /\ \E k \in 1..Len(matches) : IsHome(matches[k]) /\ RowLoss(matches[k])
    /\ metrics.num_wins = 1
    /\ metrics.away_goals = 1
    /\ metrics.away_goals_conceded = 0

(***************************************************************************)
(* C5.  For the winning, winless, scoring and clean-sheet streaks, when    *)
(* the best length L is at least 1, the reported start and end dates are   *)
(* the dates of the first and the last record of the run of L qualifying   *)
(* records that set the best, also when skipped records lie inside the     *)
(* run.  The code reads the start date L-1 positions back in the full      *)
(* list, which is a skipped record's date when the run spans one.          *)
(***************************************************************************)
SetMax(S) == CHOOSE x \in S : \A y \in S : y <= x

SetMin(S) == CHOOSE x \in S : \A y \in S : x <= y

\* The positions of the processed rows, in order.
ProcessedIdx(ms) ==
    SelectSeq([k \in 1..Len(ms) |-> k], LAMBDA k : Processed(ms[k]))

\* Among the processed rows, L consecutive ones ending at the e-th qualify.
RunEndsAt(ms, Q(_), e, L) ==
    LET U == ProcessedIdx(ms)
    IN  /\ L >= 1
        /\ e - L + 1 >= 1
        /\ \A t \in (e - L + 1)..e : Q(ms[U[t]])

BestRunLen(ms, Q(_)) ==
    LET n == Len(ProcessedIdx(ms))
    IN  SetMax({0} \cup {L \in 1..n : \E e \in 1..n : RunEndsAt(ms, Q, e, L)})

\* The dates of the first and last row of the first run of the best length.
BestRunDates(ms, Q(_)) ==
    LET U == ProcessedIdx(ms)
        L == BestRunLen(ms, Q)
        e == SetMin({x \in 1..Len(U) : RunEndsAt(ms, Q, x, L)})
    IN  [start |-> ms[U[e - L + 1]].FullDate, end |-> ms[U[e]].FullDate]

WinRow(r) == First(r) > Second(r)

WinlessRow(r) == First(r) <= Second(r)

ScoringRow(r) == First(r) > 0

CleanSheetRow(r) == Second(r) = 0

DatesAre(len, start, end, Q(_)) ==
    len >= 1 => /\ start = BestRunDates(matches, Q).start
                /\ end = BestRunDates(matches, Q).end

C5_StreakDatesAreRunDates ==
    pc = "done" =>
        /\ DatesAre(metrics.longest_streak, metrics.longest_streak_start_date,
                    metrics.longest_streak_end_date, WinRow)
        /\ DatesAre(metrics.winless_streak, metrics.longest_winless_streak_start_date,
                    metrics.longest_winless_streak_end_date, WinlessRow)
        /\ DatesAre(metrics.scoring_streak, metrics.longest_scoring_streak_start_date,
                    metrics.longest_scoring_streak_end_date, ScoringRow)
        /\ DatesAre(metrics.clean_sheet_streak,
                    metrics.longest_clean_sheet_streak_start_date,
                    metrics.longest_clean_sheet_streak_end_date, CleanSheetRow)

(***************************************************************************)
(* C6.  An iteration of calculate_metrics on a record with a missing score *)
(* or a missing date leaves every field of the scan unchanged except the   *)
(* attendance maxima and their years: outcome counts, goal sums,           *)
(* clean-sheet counts, the four current-run counters and the four best     *)
(* lengths with their dates.  So the next qualifying record extends the    *)
(* run that was current before the skipped record.                         *)
(***************************************************************************)
AttendanceFields ==
    {"highest_attendance_home", "highest_attendance_home_year",
     "highest_attendance_away", "highest_attendance_away_year"}

C6_SkipLeavesScanUnchanged ==
    [][ (/\ pc = "metrics_loop"
         /\ i < Len(matches)
         /\ i' = i + 1
         /\ ~Processed(At(matches, i)))
        => \A f \in (DOMAIN metrics) \ AttendanceFields : metrics'[f] = metrics[f] ]_vars

C6_Witness ==
    /\ pc = "metrics_loop"
    /\ i = 3
    /\ RowWin(matches[1])
    /\ ~Processed(matches[2])
    /\ RowWin(matches[3])
    /\ metrics.current_winning_streak = 2
    /\ metrics.longest_streak = 2

(***************************************************************************)
(* C7.  calculate_longest_unbeaten_streak returns the maximum length of a  *)
(* contiguous block of the input in which every record has score and date  *)
(* and is a win or a draw: a win or draw extends the current run by one,   *)
(* a loss resets it to 0, and a record with missing score or date resets   *)
(* it to 0.                                                                *)
(***************************************************************************)
UnbeatenRow(r) == Processed(r) /\ First(r) >= Second(r)

\* The longest block of unbeaten rows among the first n rows.
MaxUnbeatenBlock(ms, n) ==
    SetMax({0} \cup { L \in 1..n : \E a \in 1..(n - L + 1) :
                                     \A k \in a..(a + L - 1) : UnbeatenRow(ms[k]) })

\* The length of the block of unbeaten rows that ends at row n.
TrailingUnbeaten(ms, n) ==
    SetMax({ L \in 0..n : \A k \in (n - L + 1)..n : UnbeatenRow(ms[k]) })

C7_UnbeatenIsLongestBlock ==
    /\ pc = "unbeaten_loop" =>
          /\ unbeaten.longest_unbeaten_streak = MaxUnbeatenBlock(matches, unbeaten.i)
          /\ unbeaten.current_unbeaten_streak = TrailingUnbeaten(matches, unbeaten.i)
    /\ pc = "done" =>
          metrics.longest_unbeaten_streak = MaxUnbeatenBlock(matches, Len(matches))

C7_Witness ==
    /\ pc = "done"
    /\ Len(matches) = 3
    /\ UnbeatenRow(matches[1])
    /\ ~HasScore(matches[2])
    /\ UnbeatenRow(matches[3])
    /\ metrics.longest_unbeaten_streak = 1

(***************************************************************************)
(* C8.  For all five streaks the best length and its start/end dates are   *)
(* replaced only when the current run becomes strictly longer than the     *)
(* best so far: when a later run merely equals the best length, the dates  *)
(* remain those recorded when that length was first reached.               *)
(***************************************************************************)
StrictUpdate(len, lenN, dates, datesN, curN) ==
    (lenN # len \/ datesN # dates) => (lenN > len /\ lenN = curN)

C8_BestReplacedOnlyWhenLonger ==
    [][ /\ StrictUpdate(metrics.longest_streak, metrics'.longest_streak,
                        metrics.longest_streak_dates, metrics'.longest_streak_dates,
                        metrics'.current_winning_streak)
        /\ StrictUpdate(metrics.winless_streak, metrics'.winless_streak,
                        metrics.winless_streak_dates, metrics'.winless_streak_dates,
                        metrics'.current_winless_streak)
        /\ StrictUpdate(metrics.scoring_streak, metrics'.scoring_streak,
                        metrics.scoring_streak_dates, metrics'.scoring_streak_dates,
                        metrics'.current_scoring_streak)
        /\ StrictUpdate(metrics.clean_sheet_streak, metrics'.clean_sheet_streak,
                        metrics.clean_sheet_streak_dates,
                        metrics'.clean_sheet_streak_dates,
                        metrics'.current_clean_sheet_streak)
        /\ StrictUpdate(unbeaten.longest_unbeaten_streak,
                        unbeaten'.longest_unbeaten_streak,
                        <<unbeaten.longest_unbeaten_start_date,
                          unbeaten.longest_unbeaten_end_date>>,
                        <<unbeaten'.longest_unbeaten_start_date,
                          unbeaten'.longest_unbeaten_end_date>>,
                        unbeaten'.current_unbeaten_streak) ]_vars

\* A second winning run of length 1 has ended at row 3; the best still
\* carries the dates of row 1.
C8_Witness ==
    /\ pc = "metrics_loop"
    /\ i = 3
    /\ RowWin(matches[1])
    /\ RowLoss(matches[2])
    /\ RowWin(matches[3])
    /\ metrics.current_winning_streak = 1
    /\ metrics.longest_streak = 1
    /\ metrics.longest_streak_dates = [start |-> DateAt(1), end |-> DateAt(1)]

(***************************************************************************)
(* C9.  The longest winning streak is monotone under appending records:    *)
(* for every record sequence S on which calculate_metrics returns and      *)
(* every prefix P of S, longest_streak of calculate_metrics(P) is at most  *)
(* longest_streak of calculate_metrics(S).                                 *)
(***************************************************************************)
C9_LongestStreakMonotone ==
    pc = "done" =>
        \A k \in 0..Len(matches) :
            MetricsLoop(SubSeq(matches, 1, k), k).longest_streak
                <= metrics.longest_streak

C9_Witness ==
    /\ pc = "done"
    /\ Len(matches) = 3
    /\ RowWin(matches[1])
    /\ RowWin(matches[2])
    /\ RowLoss(matches[3])
    /\ MetricsLoop(SubSeq(matches, 1, 1), 1).longest_streak = 1
    /\ MetricsLoop(SubSeq(matches, 1, 2), 2).longest_streak = 2
    /\ metrics.longest_streak = 2

(***************************************************************************)
(* C10.  When every record of a non-empty sequence is missing its score,   *)
(* every count field and every streak length of the result is 0 and every  *)
(* streak date is None, while highest_attendance_home / _away are still    *)
(* the maxima over the records whose attendance is present.  As claimed,   *)
(* num_matches is among the count fields; as amended it is excepted,       *)
(* being the number of records.                                            *)
(***************************************************************************)
KnownAttendance(r) ==
    /\ r.Frekwencja.some
    /\ r.Frekwencja.val # <<>>
    /\ r.Frekwencja.val # <<"N", "U", "L", "L">>
    /\ IsInt(r.Frekwencja.val)

MaxAttendance(ms, venue) ==
    SetMax({0} \cup { IntOf(ms[k].Frekwencja.val) :
                        k \in { x \in 1..Len(ms) :
                                  KnownAttendance(ms[x]) /\ ms[x].Miejsce = Text(venue) } })

EveryScoreMissing == Len(matches) > 0 /\ \A k \in 1..Len(matches) : ~HasScore(matches[k])

ZeroCountFields ==
    {"num_wins", "num_draws", "num_losses",
     "total_first_digits", "total_second_digits",
     "home_goals", "home_goals_conceded", "away_goals", "away_goals_conceded",
     "clean_sheet_count", "home_clean_sheets", "away_clean_sheets",
     "longest_streak", "scoring_streak", "clean_sheet_streak", "winless_streak",
     "longest_no_clean_sheet_streak", "longest_unbeaten_streak"}

StreakDateFields ==
    {"longest_streak_start_date", "longest_streak_end_date",
     "longest_scoring_streak_start_date", "longest_scoring_streak_end_date",
     "longest_clean_sheet_streak_start_date", "longest_clean_sheet_streak_end_date",
     "longest_winless_streak_start_date", "longest_winless_streak_end_date",
     "longest_no_clean_sheet_streak_start_date",
     "longest_no_clean_sheet_streak_end_date",
     "longest_unbeaten_start_date", "longest_unbeaten_end_date"}

AllScoresMissingResult ==
    /\ \A f \in ZeroCountFields : metrics[f] = 0
    /\ \A f \in StreakDateFields : metrics[f] = None
    /\ metrics.highest_attendance_home = MaxAttendance(matches, Dom)
    /\ metrics.highest_attendance_away = MaxAttendance(matches, Wyjazd)

C10_EveryCountFieldZero ==
    (pc = "done" /\ EveryScoreMissing) =>
        (AllScoresMissingResult /\ metrics.num_matches = 0)

\* C10 as amended: every count field other than num_matches is 0, and
\* num_matches is the number of records.
C10_EveryOutcomeCountZero ==
    (pc = "done" /\ EveryScoreMissing) =>
        (AllScoresMissingResult /\ metrics.num_matches = Len(matches))

C10_Witness ==
    /\ pc = "done"
    /\ EveryScoreMissing
    /\ Len(matches) = 2
    /\ metrics.highest_attendance_home = 5
    /\ metrics.highest_attendance_away = 9

(***************************************************************************)
(* C12.  After calculate_metrics, highest_attendance_home is the maximum   *)
(* known integer attendance over the Dom records and                       *)
(* highest_attendance_away the maximum over the Wyjazd records (0 when     *)
(* there is none), each independent of the other venue and counting        *)
(* records whose score or date is missing; a missing, 'NULL' or            *)
(* non-integer attendance is ignored; the reported year is the leading     *)
(* '-'-delimited segment of the date of the first record that attained     *)
(* the maximum, None if that record has no date.                           *)
(***************************************************************************)
\* The text before the first '-'.
LeadingSegment(d) ==
    SubSeq(d, 1, SetMin({k \in 1..Len(d) : d[k] = "-"} \cup {Len(d) + 1}) - 1)

FirstRowAttaining(ms, venue) ==
    SetMin({k \in 1..Len(ms) :
              /\ KnownAttendance(ms[k])
              /\ ms[k].Miejsce = Text(venue)
              /\ IntOf(ms[k].Frekwencja.val) = MaxAttendance(ms, venue)})

YearOfMaxAttendance(ms, venue) ==
    IF MaxAttendance(ms, venue) = 0 THEN None
    ELSE LET r == ms[FirstRowAttaining(ms, venue)]
         IN  IF HasDate(r) THEN Text(LeadingSegment(r.FullDate.val)) ELSE None

C12_AttendanceMaximaAndYears ==
    pc = "done" =>
        /\ metrics.highest_attendance_home = MaxAttendance(matches, Dom)
        /\ metrics.highest_attendance_away = MaxAttendance(matches, Wyjazd)
        /\ metrics.highest_attendance_home_year = YearOfMaxAttendance(matches, Dom)
        /\ metrics.highest_attendance_away_year = YearOfMaxAttendance(matches, Wyjazd)

\* Two home rows reach the same maximum, the first one without a score; the
\* year is the first row's.
C12_Witness ==
    /\ pc = "done"
    /\ Len(matches) = 2
    /\ IsHome(matches[1]) /\ IsHome(matches[2])
    /\ ~HasScore(matches[1])
    /\ KnownAttendance(matches[1]) /\ KnownAttendance(matches[2])
    /\ matches[1].Frekwencja = matches[2].Frekwencja
    /\ HasDate(matches[1]) /\ HasDate(matches[2])
    /\ metrics.highest_attendance_home = 9
    /\ metrics.highest_attendance_home_year = Text(<<"2", "0", "2", "1">>)
    /\ metrics.highest_attendance_away = 0

(***************************************************************************)
(* C18.  For the three-record input (2020-01-01 Home 2:1, 2020-01-08 Away  *)
(* 0:0, 2020-01-15 Home 1:3) calculate_metrics returns num_wins = 1,       *)
(* num_draws = 1, num_losses = 1, longest_unbeaten_streak = 2 from         *)
(* 2020-01-01 to 2020-01-08, and longest_streak = 1.                       *)
(***************************************************************************)
C18_ScenarioResult ==
    (pc = "done" /\ matches = ScenarioMatches) =>
        /\ metrics.num_wins = 1
        /\ metrics.num_draws = 1
        /\ metrics.num_losses = 1
        /\ metrics.longest_unbeaten_streak = 2
        /\ metrics.longest_unbeaten_start_date =
               Text(<<"2", "0", "2", "0", "-", "0", "1", "-", "0", "1">>)
        /\ metrics.longest_unbeaten_end_date =
               Text(<<"2", "0", "2", "0", "-", "0", "1", "-", "0", "8">>)
        /\ metrics.longest_streak = 1

C18_Witness ==
    /\ pc = "done"
    /\ matches = ScenarioMatches
    /\ metrics.num_matches = 3
    /\ metrics.longest_unbeaten_streak = 2

(***************************************************************************)
(* C19.  After every step of the calculate_metrics scan over records whose *)
(* venue is Dom or Wyjazd, the venue buckets partition the totals: goals   *)
(* for = home_goals + away_goals, goals against = home_goals_conceded +    *)
(* away_goals_conceded, clean_sheet_count = home_clean_sheets +            *)
(* away_clean_sheets, and clean_sheet_count is the number of non-skipped   *)
(* records scanned so far that conceded 0 (second score component 0).      *)
(***************************************************************************)
C19_VenueBucketsPartitionTotals ==
    pc \in {"metrics_loop", "unbeaten_loop", "done"} =>
        /\ metrics.total_first_digits = metrics.home_goals + metrics.away_goals
        /\ metrics.total_second_digits =
               metrics.home_goals_conceded + metrics.away_goals_conceded
        /\ metrics.clean_sheet_count =
               metrics.home_clean_sheets + metrics.away_clean_sheets
        /\ metrics.clean_sheet_count =
               Cardinality({k \in 1..i : Processed(matches[k]) /\ Second(matches[k]) = 0})

C19_Witness ==
    /\ pc = "metrics_loop"
    /\ i = 2
    /\ Len(matches) = 3
    /\ IsHome(matches[1]) /\ RowWin(matches[1]) /\ Second(matches[1]) = 0
    /\ IsAway(matches[2]) /\ RowWin(matches[2]) /\ Second(matches[2]) = 0
    /\ metrics.home_clean_sheets = 1
    /\ metrics.away_clean_sheets = 1
    /\ metrics.total_first_digits = 2

(***************************************************************************)
(* C20.  In calculate_longest_unbeaten_streak the start date found by      *)
(* index lookback, matches[i - current_unbeaten_streak + 1], equals the    *)
(* separately tracked unbeaten_start_date, the date of the first record of *)
(* the current unbeaten run, whenever a run is open (so at every update of *)
(* the best); the start and end dates kept, and returned, are those of the *)
(* first and last record of the best unbeaten run.                         *)
(***************************************************************************)
\* The first row of the first block of L unbeaten rows among the first n.
FirstBestBlockStart(ms, n, L) ==
    SetMin({a \in 1..(n - L + 1) : \A k \in a..(a + L - 1) : UnbeatenRow(ms[k])})

C20_LookbackIsTrackedStart ==
    pc \in {"unbeaten_loop", "done"} =>
        LET n == unbeaten.i
            cur == unbeaten.current_unbeaten_streak
            L == MaxUnbeatenBlock(matches, n)
        IN  /\ cur >= 1 =>
                 /\ LookbackDate(matches, n - 1, cur) = unbeaten.unbeaten_start_date
                 /\ unbeaten.unbeaten_start_date = matches[n - cur + 1].FullDate
            /\ L >= 1 =>
                 LET a == FirstBestBlockStart(matches, n, L)
                 IN  /\ unbeaten.longest_unbeaten_start_date = matches[a].FullDate
                     /\ unbeaten.longest_unbeaten_end_date = matches[a + L - 1].FullDate
            /\ pc = "done" =>
                 /\ metrics.longest_unbeaten_start_date =
                        unbeaten.longest_unbeaten_start_date
                 /\ metrics.longest_unbeaten_end_date = unbeaten.longest_unbeaten_end_date

\* The best run is rows 2..3, after a lost first match.
C20_Witness ==
    /\ pc = "done"
    /\ Len(matches) = 3
    /\ Processed(matches[1]) /\ RowLoss(matches[1])
    /\ UnbeatenRow(matches[2])
    /\ UnbeatenRow(matches[3])
    /\ metrics.longest_unbeaten_streak = 2
    /\ metrics.longest_unbeaten_start_date = DateAt(2)
    /\ metrics.longest_unbeaten_end_date = DateAt(3)

(***************************************************************************)
(* C11.  For the empty record sequence no engine function raises and every *)
(* aggregate is its zero value: calculate_metrics returns all counts, goal *)
(* sums and streak lengths 0 and all dates None, calculate_home_away_stats *)
(* and calculate_home_away_matches return all zeros, get_top_scorers       *)
(* returns [("", "")] and calculate_top_scorers_by_location ("", 0) twice. *)
(***************************************************************************)
C11_EmptyInputZeroValues ==
    matches = <<>> =>
        /\ pc # "raised"
        /\ pc = "render" =>
             /\ metrics.num_matches = 0
             /\ \A f \in ZeroCountFields : metrics[f] = 0
             /\ \A f \in StreakDateFields : metrics[f] = None
             /\ metrics.highest_attendance_home = 0
             /\ metrics.highest_attendance_away = 0
             /\ metrics.highest_attendance_home_year = None
             /\ metrics.highest_attendance_away_year = None
             /\ \A b \in DOMAIN results.home_away_stats : results.home_away_stats[b] = 0
             /\ DOMAIN results.home_away_stats =
                    {"home_wins", "home_draws", "home_losses",
                     "away_wins", "away_draws", "away_losses"}
             /\ results.home_away_matches = [home_matches |-> 0, away_matches |-> 0]
             /\ results.top_scorers = << << <<>>, <<>> >> >>
             /\ results.top_scorers_by_location.home_top_scorer = << <<>>, 0 >>
             /\ results.top_scorers_by_location.away_top_scorer = << <<>>, 0 >>

C11_Witness ==
    /\ matches = <<>>
    /\ pc = "render"
    /\ Len(results.top_scorers) = 1
    /\ results.top_scorers[1][1] = <<>>

(***************************************************************************)
(* C13.  get_top_scorers returns exactly the scorer names whose tally is   *)
(* maximal, each paired with that tally and no other name, a name's tally  *)
(* being the number of times it occurs as a token over all records after   *)
(* stripping parenthetical substrings, splitting on ';' or whitespace runs *)
(* and discarding empty and purely numeric tokens; ties are all kept.      *)
(***************************************************************************)
\* The maximal stretches of s free of the separators seps, as index pairs.
Stretches(s, seps) ==
    {ab \in (1..Len(s)) \X (1..Len(s)) :
        /\ ab[1] <= ab[2]
        /\ \A k \in ab[1]..ab[2] : s[k] \notin seps
        /\ ab[1] = 1 \/ s[ab[1] - 1] \in seps
        /\ ab[2] = Len(s) \/ s[ab[2] + 1] \in seps}

\* A text with the whitespace at its two ends removed.
Trimmed(t) ==
    LET inner == {k \in 1..Len(t) : t[k] \notin Whitespace}
    IN  IF inner = {} THEN <<>> ELSE SubSeq(t, SetMin(inner), SetMax(inner))

\* The occurrences of name as a token of one scorers text, as stretches.
TokenOccurrences(text, seps, name) ==
    LET cleaned == StripParens(text)
    IN  {ab \in Stretches(cleaned, seps) : Trimmed(SubSeq(cleaned, ab[1], ab[2])) = name}

TokenNames(text, seps) ==
    LET cleaned == StripParens(text)
    IN  {Trimmed(SubSeq(cleaned, ab[1], ab[2])) : ab \in Stretches(cleaned, seps)}
            \ ({<<>>} \cup {t \in {Trimmed(SubSeq(cleaned, ab[1], ab[2])) :
                                     ab \in Stretches(cleaned, seps)} : isdigit(t)})

WithScorers(ms) == {k \in 1..Len(ms) : Truthy(ms[k].Strzelcy)}

AllNames(ms, rows, seps) == UNION {TokenNames(ms[k].Strzelcy.val, seps) : k \in rows}

Tally(ms, rows, seps, name) ==
    SumSeq([k \in 1..Len(ms) |->
              IF k \in rows
              THEN Cardinality(TokenOccurrences(ms[k].Strzelcy.val, seps, name))
              ELSE 0])

MaxTally(ms, rows, seps) ==
    SetMax({0} \cup {Tally(ms, rows, seps, n) : n \in AllNames(ms, rows, seps)})

\* top_scorers lists, once each, the names of greatest tally with that tally.
TopScorersAre(ms, seps) ==
    LET rows == WithScorers(ms)
        names == AllNames(ms, rows, seps)
        best == {n \in names : Tally(ms, rows, seps, n) = MaxTally(ms, rows, seps)}
        top == results.top_scorers
    IN  IF names = {} THEN top = << << <<>>, <<>> >> >>
        ELSE /\ {top[k] : k \in 1..Len(top)} = {<<n, MaxTally(ms, rows, seps)>> : n \in best}
             /\ Len(top) = Cardinality(best)

C13_SplitOnWhitespaceRuns ==
    pc = "render" => TopScorersAre(matches, {";", " ", "\t"})

\* C13 as amended: the separators are runs of ';' and the space character;
\* other whitespace is only trimmed from the two ends of a token.
C13_SplitOnSemicolonAndSpace ==
    pc = "render" => TopScorersAre(matches, {";", " "})

\* A tab inside a token: 'A<tab>B' is one name.
C13_Witness ==
    /\ pc = "render"
    /\ Len(matches) = 1
    /\ matches[1].Strzelcy = Text(<<"A", "\t", "B">>)
    /\ results.top_scorers = << << <<"A", "\t", "B">>, 1 >> >>

(***************************************************************************)
(* C14.  calculate_top_scorers_by_location returns for each venue a single *)
(* (name, count) pair whose count is the maximum tally among that venue's  *)
(* records; when several names tie for it, the name returned is the first  *)
(* name that reached the maximum count in record (encounter) order.        *)
(***************************************************************************)
\* The names scored at a venue, in encounter order.
RECURSIVE VenueNames(_, _, _)
VenueNames(ms, k, home) ==
    IF k = 0 THEN <<>>
    ELSE IF Truthy(ms[k].Strzelcy) /\ (IsHome(ms[k]) = home)
    THEN VenueNames(ms, k - 1, home) \o ScorerNames(ms[k].Strzelcy.val)
    ELSE VenueNames(ms, k - 1, home)

Occurrences(names, n, upto) == Cardinality({q \in 1..upto : names[q] = n})

\* The position at which name n occurs for the j-th time.
OccurrenceAt(names, n, j) ==
    CHOOSE p \in 1..Len(names) : names[p] = n /\ Occurrences(names, n, p) = j

\* The pair for a venue when ties go to the name whose j-th occurrence comes
\* first, j being 1 (first encountered) or the maximum (first to reach it).
VenuePair(ms, home, reached) ==
    LET names == VenueNames(ms, Len(ms), home)
        all == {names[p] : p \in 1..Len(names)}
        M == SetMax({0} \cup {Occurrences(names, n, Len(names)) : n \in all})
        tied == {n \in all : Occurrences(names, n, Len(names)) = M}
        at(n) == OccurrenceAt(names, n, IF reached THEN M ELSE 1)
    IN  IF names = <<>> THEN << <<>>, 0 >>
        ELSE << CHOOSE n \in tied : \A o \in tied : at(n) <= at(o), M >>

C14_FirstToReachMaximum ==
    pc \in {"check_column_visibility", "render"} =>
        /\ results.top_scorers_by_location.home_top_scorer = VenuePair(matches, TRUE, TRUE)
        /\ results.top_scorers_by_location.away_top_scorer = VenuePair(matches, FALSE, TRUE)

\* C14 as amended: among tied names the one encountered first is returned.
C14_FirstEncountered ==
    pc \in {"check_column_visibility", "render"} =>
        /\ results.top_scorers_by_location.home_top_scorer = VenuePair(matches, TRUE, FALSE)
        /\ results.top_scorers_by_location.away_top_scorer = VenuePair(matches, FALSE, FALSE)

\* A, B, B, A at home: B reaches two goals first, A is returned.
C14_Witness ==
    /\ pc = "render"
    /\ VenueNames(matches, Len(matches), TRUE) = << <<"A">>, <<"B">>, <<"B">>, <<"A">> >>
    /\ results.top_scorers_by_location.home_top_scorer = << <<"A">>, 2 >>

(***************************************************************************)
(* C15.  Scorer extraction is invariant to the order of tokens inside one  *)
(* record's scorer field: permuting the ';'/space-separated tokens of any  *)
(* single record changes neither the set of (name, count) pairs returned   *)
(* by get_top_scorers nor the home and away pairs returned by              *)
(* calculate_top_scorers_by_location.                                      *)
(***************************************************************************)
\* The ';'/space-separated tokens of a scorers text.
RawTokens(text) == SelectSeq(ReSplit(text), LAMBDA t : t # <<>>)

IndexOrders(n) == {f \in [1..n -> 1..n] : \A a, b \in 1..n : f[a] = f[b] => a = b}

RECURSIVE JoinSpace(_)
JoinSpace(tokens) ==
    IF tokens = <<>> THEN <<>>
    ELSE IF Len(tokens) = 1 THEN tokens[1]
    ELSE tokens[1] \o <<" ">> \o JoinSpace(Tail(tokens))

\* The rows with the tokens of row k's scorers text put in the order f.
Permuted(ms, k, f) ==
    LET tokens == RawTokens(ms[k].Strzelcy.val)
    IN  [ms EXCEPT ![k].Strzelcy =
            Text(JoinSpace([j \in 1..Len(tokens) |-> tokens[f[j]]]))]

TokenOrders(ms, k) == IndexOrders(Len(RawTokens(ms[k].Strzelcy.val)))

PairSet(top) == {top[k] : k \in 1..Len(top)}

NoParentheses(text) == \A k \in 1..Len(text) : text[k] \notin {"(", ")"}

RowsWhere(ms, P(_)) == Cardinality({k \in 1..Len(ms) : P(ms[k])})

C16_EveryRecordInOneVenueCount ==
    pc = "render" =>
        LET st == results.home_away_stats
            scored(r) == Truthy(r.Wynik)
        IN  /\ results.home_away_matches.home_matches = RowsWhere(matches, IsHome)
            /\ results.home_away_matches.away_matches = RowsWhere(matches, IsAway)
            /\ results.home_away_matches.home_matches
                 + results.home_away_matches.away_matches = Len(matches)
            /\ st.home_wins = RowsWhere(matches,
                   LAMBDA r : scored(r) /\ IsHome(r) /\ First(r) > Second(r))
            /\ st.home_draws = RowsWhere(matches,
                   LAMBDA r : scored(r) /\ IsHome(r) /\ First(r) = Second(r))
            /\ st.home_losses = RowsWhere(matches,
                   LAMBDA r : scored(r) /\ IsHome(r) /\ First(r) < Second(r))
            /\ st.away_wins = RowsWhere(matches,
                   LAMBDA r : scored(r) /\ IsAway(r) /\ First(r) > Second(r))
            /\ st.away_draws = RowsWhere(matches,
                   LAMBDA r : scored(r) /\ IsAway(r) /\ First(r) = Second(r))
            /\ st.away_losses = RowsWhere(matches,
                   LAMBDA r : scored(r) /\ IsAway(r) /\ First(r) < Second(r))
            /\ st.home_wins + st.home_draws + st.home_losses =
                   RowsWhere(matches, LAMBDA r : scored(r) /\ IsHome(r))
            /\ st.away_wins + st.away_draws + st.away_losses =
                   RowsWhere(matches, LAMBDA r : scored(r) /\ IsAway(r))

\* A home record without a score and an away win.
C16_Witness ==
    /\ pc = "render"
    /\ Len(matches) = 2
    /\ IsHome(matches[1]) /\ ~Truthy(matches[1].Wynik)
    /\ IsAway(matches[2]) /\ matches[2].Wynik = Text(<<"1", ":", "0">>)
    /\ results.home_away_matches = [home_matches |-> 1, away_matches |-> 1]
    /\ results.home_away_stats.away_wins = 1
    /\ results.home_away_stats.home_wins + results.home_away_stats.home_draws
         + results.home_away_stats.home_losses = 0

(***************************************************************************)
(* C17.  For every record sequence, check_column_visibility reports for    *)
(* each of the columns scorers-text, attendance and referee-name a flag    *)
(* that is true if and only if at least one record has a non-empty,        *)
(* non-null, non-'NULL' value in that column; stopping the scan once all   *)
(* three flags are true gives the same result as scanning every record.    *)
(***************************************************************************)
\* A value that is not NULL, not '' and not the text 'NULL'.
NotNullSentinel(x) == x.some /\ x.val # <<>> /\ x.val # <<"N", "U", "L", "L">>

\* A text with a character that is not whitespace.
NotBlank(x) == x.some /\ \E k \in 1..Len(x.val) : x.val[k] \notin Whitespace

\* The three tests applied to every row, with no early stop.
RECURSIVE FullScan(_, _)
FullScan(ms, k) ==
    IF k = 0 THEN [Strzelcy |-> FALSE, Frekwencja |-> FALSE, Sedzia |-> FALSE]
    ELSE ColumnFlags(FullScan(ms, k - 1), ms[k])

C17_FlagIffNotNullSentinel ==
    (pc = "render" /\ matches # <<>>) =>
        results.column_visibility =
            [Strzelcy |-> \E k \in 1..Len(matches) : NotNullSentinel(matches[k].Strzelcy),
             Frekwencja |-> \E k \in 1..Len(matches) : NotNullSentinel(matches[k].Frekwencja),
             Sedzia |-> \E k \in 1..Len(matches) : NotNullSentinel(matches[k].sedzia)]

\* C17 as amended: no rows give the empty dictionary; otherwise the scorers
\* and referee flags tell that some row holds a text that is not blank (the
\* text 'NULL' counts as data), the attendance flag that some row holds a
\* value other than NULL, '' and 'NULL'; the early stop changes nothing.
C17_FlagIffColumnHasData ==
    pc = "render" =>
        IF matches = <<>> THEN results.column_visibility = EmptyDict
        ELSE /\ results.column_visibility =
                  [Strzelcy |-> \E k \in 1..Len(matches) : NotBlank(matches[k].Strzelcy),
                   Frekwencja |-> \E k \in 1..Len(matches) :
                                     NotNullSentinel(matches[k].Frekwencja),
                   Sedzia |-> \E k \in 1..Len(matches) : NotBlank(matches[k].sedzia)]
             /\ results.column_visibility = FullScan(matches, Len(matches))

\* The scan stops after a first row with all three columns present; the
\* second row, never read, holds the text 'NULL' as its scorers.
C17_Witness ==
    /\ pc = "render"
    /\ Len(matches) = 2
    /\ NotBlank(matches[1].Strzelcy)
    /\ NotNullSentinel(matches[1].Frekwencja)
    /\ NotBlank(matches[1].sedzia)
    /\ matches[2].Strzelcy = Text(<<"N", "U", "L", "L">>)
    /\ results.column_visibility =
           [Strzelcy |-> TRUE, Frekwencja |-> TRUE, Sedzia |-> TRUE]

(***************************************************************************)
(* C21.  For every record sequence with venues Dom and Wyjazd the venue    *)
(* split agrees with the overall tallies: home_wins + away_wins =          *)
(* num_wins, home_draws + away_draws = num_draws and home_losses +         *)
(* away_losses = num_losses, the left sides from calculate_home_away_stats *)
(* and the right sides from calculate_metrics on the same rows.            *)
(***************************************************************************)
C21_VenueSplitEqualsTallies ==
    pc = "render" =>
        LET st == results.home_away_stats
        IN  /\ st.home_wins + st.away_wins = metrics.num_wins
            /\ st.home_draws + st.away_draws = metrics.num_draws
            /\ st.home_losses + st.away_losses = metrics.num_losses

\* A row with a score and no date: calculate_home_away_stats counts it,
\* calculate_metrics skips it.
ScoredUndated(r) == Truthy(r.Wynik) /\ ~Truthy(r.FullDate)

\* C21 as amended: each venue sum exceeds the tally of calculate_metrics by
\* the number of rows of that result that have a score and no date.
C21_VenueSplitEqualsTalliesPlusUndated ==
    pc = "render" =>
        LET st == results.home_away_stats
        IN  /\ st.home_wins + st.away_wins = metrics.num_wins
                 + RowsWhere(matches, LAMBDA r : ScoredUndated(r) /\ First(r) > Second(r))
            /\ st.home_draws + st.away_draws = metrics.num_draws
                 + RowsWhere(matches, LAMBDA r : ScoredUndated(r) /\ First(r) = Second(r))
            /\ st.home_losses + st.away_losses = metrics.num_losses
                 + RowsWhere(matches, LAMBDA r : ScoredUndated(r) /\ First(r) < Second(r))

\* An undated away win next to a dated home loss.
C21_Witness ==
    /\ pc = "render"
    /\ Len(matches) = 2
    /\ IsAway(matches[1]) /\ ScoredUndated(matches[1])
    /\ matches[1].Wynik = Text(<<"1", ":", "0">>)
    /\ IsHome(matches[2]) /\ Truthy(matches[2].FullDate)
    /\ matches[2].Wynik = Text(<<"0", ":", "1">>)
    /\ results.home_away_stats.away_wins = 1
    /\ results.home_away_stats.home_losses = 1
    /\ metrics.num_wins = 0
    /\ metrics.num_losses = 1

(***************************************************************************)
(* C26.  In calculate_metrics and calculate_longest_unbeaten_streak every  *)
(* current-run counter is at most the number of records scanned so far, so *)
(* whenever a best-streak start date is read the lookback index            *)
(* i - current + 1 lies in 0..i and is never negative.                     *)
(***************************************************************************)
CurrentCounters ==
    {"current_winning_streak", "current_scoring_streak",
     "current_clean_sheet_streak", "current_winless_streak"}

\* The lookback index read after the row at Python index idx.
LookbackIndex(idx, current) == idx - current + 1

C26_LookbackIndexInRange ==
    pc \in {"metrics_loop", "unbeaten_loop", "done", "raised"} =>
        /\ \A c \in CurrentCounters :
              /\ metrics[c] \in 0..i
              /\ metrics[c] >= 1 => LookbackIndex(i - 1, metrics[c]) \in 0..(i - 1)
        /\ unbeaten.current_unbeaten_streak \in 0..unbeaten.i
        /\ unbeaten.current_unbeaten_streak >= 1 =>
              LookbackIndex(unbeaten.i - 1, unbeaten.current_unbeaten_streak)
                  \in 0..(unbeaten.i - 1)

\* Three wins in three rows: both counters equal the number of rows scanned
\* and the lookback index is 0.
C26_Witness ==
    /\ pc = "unbeaten_loop"
    /\ i = 3
    /\ unbeaten.i = 3
    /\ metrics.current_winning_streak = 3
    /\ unbeaten.current_unbeaten_streak = 3
    /\ LookbackIndex(unbeaten.i - 1, unbeaten.current_unbeaten_streak) = 0

(***************************************************************************)
(* C25.  In app_simple.results, for every list of fetched records the      *)
(* statistics satisfy wins + draws + losses = total_matches with all three *)
(* non-negative, and the computation never raises: parse_result maps a     *)
(* missing or malformed score to (0, 0), so such a record is counted as a  *)
(* draw.                                                                   *)
(***************************************************************************)
\* A text int() accepts: within its whitespace, an optional sign and digits.
IntegerLike(p) ==
    LET t == Trimmed(p)
        body == IF t # <<>> /\ t[1] \in {"+", "-"} THEN SubSeq(t, 2, Len(t)) ELSE t
    IN  body # <<>> /\ \A k \in 1..Len(body) : body[k] \in Digits

\* A score of the form int:int.
WellFormedWynik(w) ==
    /\ w.some
    /\ Cardinality({k \in 1..Len(w.val) : w.val[k] = ":"}) = 1
    /\ LET c == CHOOSE k \in 1..Len(w.val) : w.val[k] = ":"
       IN  /\ IntegerLike(SubSeq(w.val, 1, c - 1))
           /\ IntegerLike(SubSeq(w.val, c + 1, Len(w.val)))

C25_SimpleStatsAddUp ==
    /\ \A k \in 1..Len(mecze) :
          ~WellFormedWynik(mecze[k].Wynik) => parse_result(mecze[k].Wynik) = <<0, 0>>
    /\ pc = "render_template" =>
          /\ stats.wins + stats.draws + stats.losses = stats.total_matches
          /\ stats.total_matches = Len(mecze)
          /\ stats.wins >= 0 /\ stats.draws >= 0 /\ stats.losses >= 0
          /\ stats.draws >=
                 Cardinality({k \in 1..Len(mecze) : ~WellFormedWynik(mecze[k].Wynik)})
          /\ stats.wins + stats.losses <=
                 Cardinality({k \in 1..Len(mecze) : WellFormedWynik(mecze[k].Wynik)})

\* A missing score and a malformed one: two draws.
C25_Witness ==
    /\ pc = "render_template"
    /\ Len(mecze) = 2
    /\ mecze[1].Wynik = None
    /\ mecze[2].Wynik = Text(<<"1", ":", "0", ":", "2">>)
    /\ stats = [total_matches |-> 2, wins |-> 0, draws |-> 2, losses |-> 0]

\* ---------------------------------------------------------------------------
\* Login lockout (authenticate_user called by one client at a time)
\* ---------------------------------------------------------------------------

\* The step is a call of authenticate_user for the account e.
IsAuthenticateCall(e) ==
    /\ now' = now
    /\ log'.op = "authenticate_user"
    /\ log'.email \in Emails
    /\ lower(log'.email) = e

\* The fifth wrong-password call since the last successful login leaves the
\* account locked, and a lock that is set ends LockMinutes after the call.
LockSetAhead(e) ==
    /\ (wrong[e] < LockThreshold /\ wrong'[e] = LockThreshold)
          => /\ users'[e].failed_login_attempts >= LockThreshold
             /\ users'[e].locked_until = Some(now + LockMinutes)
    /\ (users'[e].locked_until # users[e].locked_until /\ users'[e].locked_until.some)
          => users'[e].locked_until = Some(now + LockMinutes)

\* A call made while the account is locked returns no user and leaves the
\* row as it was.
LockedCallRefused(e) ==
    (IsAuthenticateCall(e) /\ Locked(users[e], now))
       => /\ ~log'.ok
          /\ log'.user = NoRow
          /\ users'[e] = users[e]

\* A call that returns a user leaves the counter at 0 and the lock cleared.
SuccessResets(e) ==
    (IsAuthenticateCall(e) /\ log'.ok)
       => /\ users'[e].failed_login_attempts = 0
          /\ users'[e].locked_until = Nothing

\* C22: after 5 wrong-password calls to authenticate_user on a confirmed
\* account with no successful login in between, locked_until is set 15 minutes
\* ahead; every authenticate_user call made before locked_until returns no
\* user, even with the correct password, and leaves failed_login_attempts and
\* locked_until unchanged; a successful login resets failed_login_attempts to 0
\* and locked_until to NULL.
C22_LockAfterFiveWrongPasswords ==
    [][\A e \in Accounts : /\ LockSetAhead(e)
                           /\ LockedCallRefused(e)
                           /\ SuccessResets(e)]_vars

\* The account was locked by its fifth wrong password 10 minutes ago, so the
\* lock has 5 minutes left.
C22_Witness ==
    /\ wrong["a"] = LockThreshold
    /\ users["a"].is_confirmed
    /\ users["a"].failed_login_attempts = LockThreshold
    /\ users["a"].locked_until = Some(now + LockMinutes - 10)
    /\ log.op = "authenticate_user"
    /\ ~log.ok

\* ---------------------------------------------------------------------------
\* Registration and confirmation
\* ---------------------------------------------------------------------------

\* A call that returns a user record was made for a confirmed account.
OnlyConfirmedLogIn(e) ==
    (IsAuthenticateCall(e) /\ log'.ok)
       => /\ users[e].is_confirmed
          /\ log'.user.is_confirmed

\* is_confirmed turns true only in a successful confirm_email whose token was
\* signed for the account's address no more than Expiration ago.
ConfirmedOnlyByToken(e) ==
    (~users[e].is_confirmed /\ users'[e].is_confirmed)
       => /\ log'.op = "confirm_email"
          /\ log'.ok
          /\ log'.token \in signed
          /\ now - log'.token.issued <= Expiration
          /\ log'.token.email \in Emails
          /\ lower(log'.token.email) = e

\* confirm_email with a token of an account that is confirmed already (a
\* token presented again after it succeeded is one) fails and changes nothing.
ConfirmAgainFails(e) ==
    (/\ log' # log
     /\ log'.op = "confirm_email"
     /\ log'.token.email \in Emails
     /\ lower(log'.token.email) = e
     /\ users[e].is_confirmed)
       => /\ ~log'.ok
          /\ users' = users
          /\ signed' = signed

\* C23: after any sequence of create_user, resend_confirmation, confirm_email
\* and authenticate_user calls, authenticate_user never returns a user record
\* for an account whose is_confirmed is false; is_confirmed turns true only
\* through confirm_email with a valid, unexpired token for that account's
\* address; a second confirm_email with the same token returns failure and
\* changes nothing.
C23_ConfirmedBeforeLogin ==
    [][\A e \in Accounts : /\ OnlyConfirmedLogIn(e)
                           /\ ConfirmedOnlyByToken(e)
                           /\ ConfirmAgainFails(e)]_vars

\* A token that is signed and not expired was presented for an account that
\* is confirmed, and the call failed.
C23_Witness ==
    /\ log.op = "confirm_email"
    /\ ~log.ok
    /\ log.token \in signed
    /\ now - log.token.issued <= Expiration
    /\ log.token.email \in Emails
    /\ users[lower(log.token.email)].is_confirmed

\* ---------------------------------------------------------------------------
\* Overlapping authenticate_user calls
\* ---------------------------------------------------------------------------

\* The calls that passed the lock check and have committed their UPDATE.
FailedCalls == {c \in Callers : calls[c].stage = "failed"}

\* No call is between its SELECT and its UPDATE.
NoCallInFlight == \A c \in Callers : calls[c].stage # "verified"

\* C24: when several authenticate_user calls with wrong passwords for the same
\* confirmed, unlocked account interleave, no increment is lost: k such calls
\* raise failed_login_attempts by exactly k, so 5 wrong attempts lock the
\* account under every interleaving.
C24_NoIncrementLost ==
    NoCallInFlight
       => /\ users["a"].failed_login_attempts = Cardinality(FailedCalls)
          /\ Cardinality(FailedCalls) >= LockThreshold => Locked(users["a"], now)

====
